---------------------------- MODULE Spec2Model ----------------------------
(***************************************************************************)
(* Model of the QQ-Bot channel connector (wadefelix/qqbot).                *)
(*                                                                         *)
(*   - token store and msg_seq counter   src/unnamed/part_005 (api.ts)     *)
(*   - reply limiter and sendText        src/src/outbound.ts               *)
(*   - gateway FSM, reconnect policy,                                      *)
(*     inbound queue                     src/unnamed/part_003 (gateway.ts) *)
(*   - streaming gateway receive path    src/src/gateway.ts                *)
(*                                                                         *)
(* The program runs on the Node.js event loop: every handler runs to its   *)
(* next await without interleaving (one action per handler segment), and   *)
(* continuations of a settled promise (microtasks) run before the next     *)
(* timer, socket or network event.  The variable microtasks holds the      *)
(* continuations that are ready; every macro event is guarded by           *)
(* microtasks = << >>.                                                     *)
(*                                                                         *)
(* Time is counted in units of 5 minutes (the token refresh margin).       *)
(***************************************************************************)
EXTENDS Integers, Sequences, FiniteSets, TLC

\* ------------------------------------------------------------------------
\* Bounds of the model
\* ------------------------------------------------------------------------
MaxTime == 14          \* the clock stops here
MaxFetches == 2        \* token fetch slots (the code keeps one in flight)
MaxClients == 2        \* token-store callers in SpecToken
NumMsgIds == 4         \* inbound message ids
MaxTracked == 2        \* msgSeqTracker entries kept (1000 in the code, scaled)
MaxSeqCalls == 6       \* getNextMsgSeq calls per run of SpecSeq
MaxSenders == 2        \* sendText calls in progress at once
MaxSendCalls == 5      \* sendText calls per run of SpecLimiter
PruneSize == 0         \* messageReplyTracker size that triggers pruning (10000, scaled)
MaxSockets == 2        \* WebSocket objects alive at once
MaxTimers == 2         \* setTimeout slots of scheduleReconnect
MaxConns == 2          \* connect() invocations suspended at once
MaxConnectCalls == 2   \* connect() calls per run
MaxLockCalls == 3      \* connect() calls per run of SpecLock
MaxText == 2           \* length of the text a partial reply carries
MaxChunks == 4         \* chunks of a reply session after which no STREAMING chunk starts
MaxSeq == 2            \* sequence numbers s of dispatch frames
MaxRefresh == 2        \* background refresh loops alive at once
MAX_RECONNECT_ATTEMPTS == 3   \* 100 in the code, scaled
MaxEnqueues == 5       \* enqueueMessage calls of a run
MaxHandlers == 2       \* frame handler invocations suspended at once
MESSAGE_QUEUE_SIZE == 3       \* 1000 in the code, scaled

\* ------------------------------------------------------------------------
\* Program constants (time in units of 5 minutes)
\* ------------------------------------------------------------------------
REFRESH_MARGIN == 1            \* 5 * 60 * 1000 ms
DEFAULT_EXPIRES_IN == 24       \* 7200 s
MESSAGE_REPLY_LIMIT == 4
MESSAGE_REPLY_TTL == 12        \* 60 * 60 * 1000 ms

\* gateway.ts (delays in seconds)
RECONNECT_DELAYS == <<1, 2, 5, 10, 30, 60>>
RATE_LIMIT_DELAY == 60
INVALID_SESSION_DELAY == 3     \* scheduleReconnect(3000) of op 9
MAX_QUICK_DISCONNECT_COUNT == 3
NumIntentLevels == 3           \* INTENT_LEVELS.length

Apps == {1, 2}                 \* appId / clientSecret pairs
TokenVers == {1, 2}            \* access_token strings the server may issue
ExpiresInChoices == {0, 1, 8}  \* expires_in of a response; 0 = field absent

NullTok == [app |-> 0, ver |-> 0]
NullCached == [token |-> NullTok, expiresAt |-> 0]
NoFetch == 0
FetchIds == 1..MaxFetches
ClientIds == 1..MaxClients

MsgIds == 1..NumMsgIds
NoMsg == 0
SeqBases == {0, 7}             \* Math.floor(Date.now() / 1000) % 100000000 at startup

Null == 0                      \* null: no session id, no seq, no socket, no timer
SocketIds == 1..MaxSockets
TimerIds == 1..MaxTimers
HandlerIds == 1..MaxHandlers
ConnIds == 1..MaxConns
RefreshIds == 1..MaxRefresh
SessionIds == {1, 2}
CloseCodes == {1000, 1006, 4009, 4900, 4914, 4915}

NoSession == [sessionId |-> Null, lastSeq |-> Null, intentLevelIndex |-> 0]
NoFrame == [op |-> 0, session_id |-> Null, seq |-> Null, intents |-> 0]
NoSocket == [readyState |-> "CLOSED", opened |-> FALSE, firstSent |-> NoFrame,
             lastSent |-> 0]
NoCalls == [timeout |-> 0, error |-> 0, reply |-> 0, retried |-> FALSE, to |-> "none"]
NoHandling == [pc |-> "idle", event |-> NoMsg, hasResponse |-> FALSE, timeoutId |-> FALSE,
               dispatchPromise |-> "none", outcome |-> "none", calls |-> NoCalls]
NoHandle == [inProgress |-> 0, last |-> NoMsg, failed |-> FALSE]
NoEnqueue == [calls |-> 0, last |-> NoMsg, full |-> FALSE]
NoIdentify == [sock |-> 0, level |-> -1, expect |-> -1, flip |-> FALSE]
\* inv: the last Invalid Session frame, or close with code 4009 or
\* 4900..4913, not yet followed by a handshake, and its socket; shake: the
\* inv a handshake was made under; late: a timed close has found the last
\* open to be older than QUICK_DISCONNECT_THRESHOLD.
NoInvalid == [on |-> FALSE, d |-> FALSE, sock |-> 0, code |-> 0]
NoEvent == [kind |-> "none", op |-> 0, t |-> "", d |-> FALSE, code |-> 0,
            quick |-> FALSE, sock |-> 0, flip |-> FALSE, inv |-> NoInvalid,
            shake |-> NoInvalid, late |-> FALSE]
IdleTimer == [pending |-> FALSE, delay |-> 0, custom |-> FALSE]

\* The sessions the store may hold when the process starts.
SavedSessions ==
  {NoSession, [sessionId |-> 1, lastSeq |-> 1, intentLevelIndex |-> 1]}

VARIABLES
  now,               \* Date.now(), in units of 5 minutes
  microtasks,        \* ready promise continuations, in order
  cachedToken,       \* api.ts cachedToken (NullCached = null)
  tokenFetchPromise, \* api.ts tokenFetchPromise: the fetch it belongs to, or NoFetch
  fetches,           \* per fetch slot: is a doFetchToken in flight, for which app, who awaits it
  clientPc,          \* token-store callers: "idle" | "wait"
  clientRes,         \* the result the caller's last getAccessToken gave
  clearPending,      \* how the last clearTokenCache() found the store and how the
                     \* first getAccessToken after it was served
  msgSeqTracker,     \* api.ts msgSeqTracker: a Map, as its entries in insertion order
  seqBaseTime,       \* api.ts seqBaseTime
  seqReturned,       \* per message id, the values getNextMsgSeq returned to the
                     \* callers of SpecSeq
  messageReplyTracker, \* outbound.ts messageReplyTracker; count 0 = no record
  sendPc,            \* sendText calls: "idle" | "token" | "rest"
  sendCtx,           \* their locals: to, replyToId, fallbackToProactive (text is
                     \* not read for control after its validation)
  sendResult,        \* what the sendText call that returned last gave
  sendCalls,         \* number of sendText calls made
  sendLast,          \* the last sendText call: was its text blank, was the
                     \* account configured, its ctx.replyToId, did the limiter
                     \* report fallback
  passiveIssued,     \* per message id, REST calls issued with msg_id = that id
  passiveOk,         \* per message id, the successes of such calls: the time of
                     \* the first of a window and the number within its TTL
  \* startGateway (gateway.ts)
  mainPc,            \* "start" before startGateway has run, then "running"
  reconnectAttempts, isAborted, currentWs, heartbeatInterval, sessionId, lastSeq,
  lastConnectTime,   \* 0, or 1 once a socket has opened (the value is read only
                     \* against the clock: see SocketClose)
  failedAttempts,    \* connection attempts that failed (connect() threw, or its
                     \* socket closed without opening) since the last open
  quickDisconnectCount, isConnecting, reconnectTimer, shouldRefreshToken,
  intentLevelIndex, lastSuccessfulIntentLevel,
  savedSession,      \* session-store: the persisted SessionState of the account
  sockets,           \* per WebSocket object: readyState, was it ever open, the
                     \* first frame and the op of the last frame it sent
  intervals,         \* sockets whose heartbeat setInterval is active
  timers,            \* per setTimeout slot: pending, and its delay
  connPc,            \* connect() invocations: "idle" | "token" | "url"
  connectCalls,      \* number of connect() calls made
  fatalClose,        \* a close with code 4914 / 4915 has been handled
  identifyLog,       \* the Identify that awaits its answer (socket and level),
                     \* the level an op 9 with d=false has called for, and a
                     \* bit that flips with every Identify sent
  messageQueue, messageProcessorRunning,
  workerPc,          \* processLoop: "off" | "sleep" | "handle"
  seqServed,         \* the message ids getNextMsgSeq was called for, in order
  received,          \* the text of the acknowledged chunks of a stream: its length,
                     \* and whether an increment began elsewhere than at its end
  handleState,       \* the handleMessage invocation in progress (part_003): where it
                     \* waits, its event, hasResponse, timeoutId, dispatchPromise,
                     \* the REST calls it has issued
  handleLog,         \* handleMessage: invocations in progress, the message handed
                     \* over last, whether the last one settled threw
  enqueueLog,        \* the enqueueMessage calls made: their number, the message
                     \* of the last one and whether it found the queue full
  backgroundRefreshRunning,
  refreshPc,         \* refreshLoop instances: "off" | "token" | "sleep"
  refreshAborted,    \* their AbortSignal
  backgroundRefreshAbortController, \* the instance whose signal stop aborts
  streamBuffer,      \* src/gateway.ts handleMessage, C2C streaming: length of
                     \* the accumulated text
  lastSentLength, streamStarted, streamEnded, sendingLock,
  pendingFullText,   \* length of the stashed text, 0 = ""
  keepaliveTimer,    \* the keepalive timeout is pending
  hasResponse,
  timeoutId,         \* the response timeout is pending
  streamCtx,         \* StreamContext of the stream sender: index, ended
  chunkSend,         \* doStreamSend at its await of the sender: "idle" |
                     \* "rest" (REST call in flight) | "refused", and fullText
  keepaliveSend,     \* the keepalive callback at its await: same values
  errorPc,           \* onError: "idle" | "wait" | "rest" | "refused" |
                     \* "errmsg" | "done"
  handlePc,          \* handleMessage: "idle" | "dispatch" | "wait" | "rest" |
                     \* "refused" | "done"
  chunkLog,          \* the stream states of the chunks sent, in order
  channelConfig,     \* cfg.channels.qqbot: per account id its markdownSupport
  startedAccounts,   \* the accounts whose gateway has been started
  currentMarkdownSupport, \* api.ts currentMarkdownSupport
  lastBody,          \* the last body buildMessageBody built, and for whom
  deliverPc,         \* deliver callback: "idle", "image", "media", "text", "done"
  dlvReply,          \* the event and payload text the callback was called with
  imageUrls,         \* deliver: number of collected images
  textWithoutImages, \* deliver: the text left to send
  dlvRetried,        \* sendWithTokenRetry: the current send is the retry
  apiCalls,          \* the HTTP calls made by the callback, in order
  eventLog,          \* the last frame or close event a logged handler ran for
  streamHandlers     \* src/gateway.ts (the gateway without a queue): per
                     \* invocation of its frame handler, the message whose
                     \* handleMessage it awaits, or NoMsg

tokVars == <<cachedToken, tokenFetchPromise, fetches>>
clientVars == <<clientPc, clientRes, clearPending>>
loopVars == <<now, microtasks>>

seqVars == <<msgSeqTracker, seqBaseTime>>
limVars == <<messageReplyTracker, sendPc, sendCtx, sendResult, sendCalls, sendLast,
             passiveIssued, passiveOk>>

gwState == <<reconnectAttempts, isAborted, currentWs, heartbeatInterval, sessionId,
             lastSeq, lastConnectTime, failedAttempts, quickDisconnectCount,
             isConnecting,
             reconnectTimer, shouldRefreshToken, intentLevelIndex,
             lastSuccessfulIntentLevel>>
gwEnv == <<mainPc, savedSession, sockets, intervals, timers, connPc, connectCalls,
           fatalClose, identifyLog, streamHandlers>>
queueVars == <<messageQueue, messageProcessorRunning, workerPc, enqueueLog, handleLog>>
refreshVars == <<backgroundRefreshRunning, refreshPc, refreshAborted,
                 backgroundRefreshAbortController>>
gwVars == <<gwState, gwEnv, queueVars, refreshVars>>

chunkVars == <<streamBuffer, lastSentLength, streamStarted, streamEnded, sendingLock,
               pendingFullText, keepaliveTimer, hasResponse, timeoutId, streamCtx,
               chunkSend, keepaliveSend, errorPc, handlePc, chunkLog, received>>

apiVars == <<channelConfig, startedAccounts, currentMarkdownSupport, lastBody>>
dlvVars == <<deliverPc, dlvReply, imageUrls, textWithoutImages, dlvRetried, apiCalls>>
extVars == <<apiVars, dlvVars, eventLog, handleState, seqServed>>

vars == <<loopVars, tokVars, clientVars, seqVars, seqReturned, limVars, chunkVars, extVars,
          gwVars>>

\* What the actions of one subsystem leave alone.
restOfToken == <<seqVars, seqReturned, limVars, chunkVars, extVars, gwVars>>
restOfSeq == <<loopVars, tokVars, clientVars, limVars, chunkVars, extVars, gwVars>>
restOfLimiter == <<clientVars, seqReturned, chunkVars, extVars, gwVars>>
restOfStream == <<now, clientVars, seqVars, seqReturned, limVars, chunkVars,
                  extVars>>
restOfChunks == <<loopVars, tokVars, clientVars, seqVars, seqReturned, limVars, gwVars,
                  extVars>>
restOfApi == <<loopVars, tokVars, clientVars, seqVars, seqReturned, limVars, gwVars,
               chunkVars, dlvVars, eventLog, handleState, seqServed>>
restOfDeliver == <<loopVars, tokVars, clientVars, seqVars, seqReturned, limVars, gwVars,
                   chunkVars, apiVars, eventLog, handleState, seqServed>>
restOfGateway == <<restOfStream, streamHandlers>>
restOfSocket == <<now, clientVars, seqVars, seqReturned, limVars, chunkVars, apiVars,
                  dlvVars, handleState, seqServed, streamHandlers>>

IdleFetch == [flying |-> FALSE, app |-> 0, waiters |-> << >>]
NoResult == [ok |-> FALSE, token |-> NullTok, rate |-> FALSE]
OkResult(t) == [ok |-> TRUE, token |-> t, rate |-> FALSE]
ErrResult(r) == [ok |-> FALSE, token |-> NullTok, rate |-> r]

Client(c) == [kind |-> "client", id |-> c]
Sender(s) == [kind |-> "send", id |-> s]
Conn(k) == [kind |-> "conn", id |-> k]
Refresh(r) == [kind |-> "refresh", id |-> r]
SenderIds == 1..MaxSenders

\* ------------------------------------------------------------------------
\* TokenStore
\* ------------------------------------------------------------------------
\* cachedToken && Date.now() < cachedToken.expiresAt - 5 * 60 * 1000
TokenFresh ==
  cachedToken /= NullCached /\ now < cachedToken.expiresAt - REFRESH_MARGIN

InFlight == {f \in FetchIds : fetches[f].flying}
FreeFetch == CHOOSE f \in FetchIds : ~fetches[f].flying

GetAccessTokenNoSingleflight(caller, app) ==
  /\ InFlight /= FetchIds
  /\ tokenFetchPromise' = FreeFetch
  /\ fetches' = [fetches EXCEPT ![FreeFetch] =
                   [flying |-> TRUE, app |-> app, waiters |-> <<caller>>]]

\* getAccessToken past the cache check: join the fetch in flight, or start
\* one.  The cache is written by doFetchToken alone.
GetAccessToken(caller, app) ==
  IF tokenFetchPromise /= NoFetch
  THEN /\ fetches' = [fetches EXCEPT ![tokenFetchPromise].waiters = Append(@, caller)]
       /\ UNCHANGED tokenFetchPromise
  ELSE /\ InFlight /= FetchIds
       /\ tokenFetchPromise' = FreeFetch
       /\ fetches' = [fetches EXCEPT ![FreeFetch] =
                        [flying |-> TRUE, app |-> app, waiters |-> <<caller>>]]

\* expiresAt: Date.now() + (data.expires_in ?? 7200) * 1000
ExpiresAt(expiresIn) ==
  now + (IF expiresIn = 0 THEN DEFAULT_EXPIRES_IN ELSE expiresIn)

Settle(f, res) ==
  [i \in 1..Len(fetches[f].waiters) |-> [c |-> fetches[f].waiters[i], res |-> res]]

\* doFetchToken: the response carries an access_token.
DoFetchTokenOk(f, ver, expiresIn) ==
  /\ microtasks = << >>
  /\ fetches[f].flying
  /\ cachedToken' = [token |-> [app |-> fetches[f].app, ver |-> ver],
                     expiresAt |-> ExpiresAt(expiresIn)]
  /\ tokenFetchPromise' = NoFetch
  /\ fetches' = [fetches EXCEPT ![f] = IdleFetch]
  /\ microtasks' = Settle(f, OkResult([app |-> fetches[f].app, ver |-> ver]))

\* doFetchToken: network error, unparsable body or no access_token.
DoFetchTokenFail(f, rate) ==
  /\ microtasks = << >>
  /\ fetches[f].flying
  /\ tokenFetchPromise' = NoFetch
  /\ fetches' = [fetches EXCEPT ![f] = IdleFetch]
  /\ microtasks' = Settle(f, ErrResult(rate))
  /\ UNCHANGED cachedToken

ClearTokenCacheAndPromise ==
  /\ cachedToken' = NullCached
  /\ tokenFetchPromise' = NoFetch
  /\ UNCHANGED fetches

ClearTokenCache ==
  /\ cachedToken' = NullCached
  /\ UNCHANGED <<tokenFetchPromise, fetches>>

\* ------------------------------------------------------------------------
\* MsgSeqCounter
\* ------------------------------------------------------------------------
SeqKeys(tr) == {tr[i].key : i \in 1..Len(tr)}

\* The place of msgId in the tracker, 0 when it has none.
SeqGet(tr, msgId) ==
  IF msgId \in SeqKeys(tr)
  THEN (CHOOSE i \in 1..Len(tr) : tr[i].key = msgId)
  ELSE 0

\* msgSeqTracker.get(msgId) ?? 0
SeqCurrent(tr, msgId) ==
  IF SeqGet(tr, msgId) = 0 THEN 0 ELSE tr[SeqGet(tr, msgId)].val

\* Map.set: an existing key keeps its place, a new key goes last.
SeqSet(tr, msgId, v) ==
  IF SeqGet(tr, msgId) = 0
  THEN Append(tr, [key |-> msgId, val |-> v])
  ELSE [tr EXCEPT ![SeqGet(tr, msgId)].val = v]

\* if (size > 1000) delete keys[0..499]
EvictCount == MaxTracked \div 2
SeqEvict(tr) ==
  IF Len(tr) > MaxTracked THEN SubSeq(tr, EvictCount + 1, Len(tr)) ELSE tr

\* The tracker after getNextMsgSeq(msgId), and the value the call returns.
NextTracker(tr, msgId) == SeqEvict(SeqSet(tr, msgId, SeqCurrent(tr, msgId) + 1))
GetNextMsgSeq(tr, msgId) == seqBaseTime + SeqCurrent(tr, msgId) + 1

\* A send function computes the msg_seq of a reply to msgId.
MsgSeqCall(msgId) ==
  /\ msgSeqTracker' = NextTracker(msgSeqTracker, msgId)
  /\ UNCHANGED seqBaseTime
MsgSeqCallIf(passive, msgId) ==
  IF passive THEN MsgSeqCall(msgId) ELSE UNCHANGED seqVars

RECURSIVE SumLen(_, _)
SumLen(f, S) ==
  IF S = {} THEN 0
  ELSE LET x == CHOOSE y \in S : TRUE IN Len(f[x]) + SumLen(f, S \ {x})

\* ------------------------------------------------------------------------
\* ReplyLimiter
\* ------------------------------------------------------------------------
NoRecord == [count |-> 0, firstReplyAt |-> 0]

TrackerSize(tr) == Cardinality({m \in MsgIds : tr[m] /= NoRecord})

\* now - rec.firstReplyAt > MESSAGE_REPLY_TTL
Expired(rec) == now - rec.firstReplyAt > MESSAGE_REPLY_TTL

\* The lazy pruning at the head of checkMessageReplyLimit.
PruneTracker(tr) ==
  IF TrackerSize(tr) > PruneSize
  THEN [m \in MsgIds |-> IF tr[m] /= NoRecord /\ Expired(tr[m]) THEN NoRecord ELSE tr[m]]
  ELSE tr

Allow(n) ==
  [allowed |-> TRUE, remaining |-> n, shouldFallbackToProactive |-> FALSE,
   fallbackReason |-> "none"]
Fallback(why) ==
  [allowed |-> FALSE, remaining |-> 0, shouldFallbackToProactive |-> TRUE,
   fallbackReason |-> why]

\* checkMessageReplyLimit: the record is read before the pruning.
CheckMessageReplyLimit(tr, messageId) ==
  LET record == tr[messageId] IN
  IF record = NoRecord THEN Allow(MESSAGE_REPLY_LIMIT)
  ELSE IF Expired(record) THEN Fallback("expired")
  ELSE IF MESSAGE_REPLY_LIMIT - record.count <= 0 THEN Fallback("limit_exceeded")
  ELSE Allow(MESSAGE_REPLY_LIMIT - record.count)

\* recordMessageReply
RecordMessageReply(tr, messageId) ==
  LET record == tr[messageId] IN
  IF record = NoRecord \/ Expired(record)
  THEN [tr EXCEPT ![messageId] = [count |-> 1, firstReplyAt |-> now]]
  ELSE [tr EXCEPT ![messageId].count = @ + 1]

\* ------------------------------------------------------------------------
\* OutboundDispatcher: sendText
\* ------------------------------------------------------------------------
Targets == {"c2c", "group", "channel"}   \* parseTarget(to).type
Texts == {"", " ", "hi"}
NoCtx == [to |-> "c2c", replyToId |-> NoMsg, fallback |-> FALSE]
NoSend == [blank |-> FALSE, configured |-> TRUE, reply |-> NoMsg, fallback |-> FALSE]

\* !text || text.trim().length === 0
Blank(text) == text \in {"", " "}

ReplyToIdKept(reply, fallback) == reply

\* fallbackToProactive = true; replyToId = null
ReplyToIdAfterCheck(reply, fallback) == IF fallback THEN NoMsg ELSE reply

ActiveSendUnchecked(replyToId, text) == FALSE

\* if (!replyToId) { if (!text || text.trim().length === 0) return error }
ActiveSendBlank(replyToId, text) == replyToId = NoMsg /\ Blank(text)

\* The REST call of sendText: the send function of the target, which takes
\* the next msg_seq for a passive C2C or group reply, and apiRequest.
SendIssue(s, ctx) ==
  /\ sendPc' = [sendPc EXCEPT ![s] = "rest"]
  /\ sendCtx' = [sendCtx EXCEPT ![s] = ctx]
  /\ passiveIssued' =
       IF ctx.replyToId /= NoMsg
       THEN [passiveIssued EXCEPT ![ctx.replyToId] = @ + 1]
       ELSE passiveIssued
  /\ IF ctx.replyToId /= NoMsg /\ ctx.to \in {"c2c", "group"}
     THEN MsgSeqCall(ctx.replyToId)
     ELSE UNCHANGED seqVars
  /\ UNCHANGED <<sendResult, passiveOk>>

SendReturn(s, res) ==
  /\ sendPc' = [sendPc EXCEPT ![s] = "idle"]
  /\ sendCtx' = [sendCtx EXCEPT ![s] = NoCtx]
  /\ sendResult' = res

\* sendText up to its first suspension.
SendText(s, to, text, reply, configured) ==
  /\ microtasks = << >>
  /\ sendPc[s] = "idle"
  /\ sendCalls < MaxSendCalls
  /\ sendCalls' = sendCalls + 1
  /\ sendLast' = [blank |-> Blank(text), configured |-> configured, reply |-> reply,
                  fallback |-> reply /= NoMsg
                               /\ ~CheckMessageReplyLimit(messageReplyTracker, reply).allowed]
  /\ LET chk == CheckMessageReplyLimit(messageReplyTracker, reply)
         refused == reply /= NoMsg /\ ~chk.allowed
         fallback == refused /\ chk.shouldFallbackToProactive
         replyToId == ReplyToIdAfterCheck(reply, fallback)
         ctx == [to |-> to, replyToId |-> replyToId, fallback |-> fallback]
     IN /\ messageReplyTracker' =
             IF reply /= NoMsg THEN PruneTracker(messageReplyTracker)
             ELSE messageReplyTracker
        /\ IF (refused /\ ~fallback) \/ ActiveSendBlank(replyToId, text)
              \/ ~configured
           THEN /\ SendReturn(s, "error")
                /\ UNCHANGED <<tokVars, seqVars, passiveIssued, passiveOk>>
           ELSE IF TokenFresh
           THEN /\ SendIssue(s, ctx)
                /\ UNCHANGED tokVars
           ELSE /\ GetAccessToken(Sender(s), 1)
                /\ sendPc' = [sendPc EXCEPT ![s] = "token"]
                /\ sendCtx' = [sendCtx EXCEPT ![s] = ctx]
                /\ UNCHANGED <<cachedToken, seqVars, sendResult, passiveIssued,
                               passiveOk>>
  /\ UNCHANGED <<loopVars, restOfLimiter>>

\* sendText resumes with the access token, or with the error of the fetch.
SendTokenResume ==
  /\ microtasks /= << >>
  /\ Head(microtasks).c.kind = "send"
  /\ microtasks' = Tail(microtasks)
  /\ LET s == Head(microtasks).c.id IN
       IF Head(microtasks).res.ok
       THEN SendIssue(s, sendCtx[s])
       ELSE /\ SendReturn(s, "error")
            /\ UNCHANGED <<seqVars, passiveIssued, passiveOk>>
  /\ UNCHANGED <<now, tokVars, messageReplyTracker, sendCalls, sendLast,
                 restOfLimiter>>

\* The REST call of sendText settles: a response, or an error that is caught.
SendRestDone(s, ok) ==
  /\ microtasks = << >>
  /\ sendPc[s] = "rest"
  /\ LET m == sendCtx[s].replyToId IN
       IF ok /\ m /= NoMsg
       THEN /\ messageReplyTracker' = RecordMessageReply(messageReplyTracker, m)
            /\ passiveOk' = [passiveOk EXCEPT ![m] =
                              IF @.n = 0 \/ now - @.first > MESSAGE_REPLY_TTL
                              THEN [first |-> now, n |-> 1]
                              ELSE [@ EXCEPT !.n = @ + 1]]
       ELSE UNCHANGED <<messageReplyTracker, passiveOk>>
  /\ SendReturn(s, IF ok THEN "sent" ELSE "error")
  /\ UNCHANGED <<loopVars, tokVars, seqVars, sendCalls, sendLast, passiveIssued,
                 restOfLimiter>>

\* ------------------------------------------------------------------------
\* Callers of the token store (SpecToken): any task of the process that
\* calls getAccessToken(appId, clientSecret) or clearTokenCache().
\* ------------------------------------------------------------------------
\* A task calls getAccessToken and runs to its first suspension.
ClientCall(c, app) ==
  /\ microtasks = << >>
  /\ clientPc[c] = "idle"
  /\ IF TokenFresh
     THEN /\ clientRes' = [clientRes EXCEPT ![c] = OkResult(cachedToken.token)]
          /\ UNCHANGED <<clientPc, tokVars>>
     ELSE /\ GetAccessToken(Client(c), app)
          /\ clientPc' = [clientPc EXCEPT ![c] = "wait"]
          /\ UNCHANGED <<cachedToken, clientRes>>
  /\ clearPending' =
       IF clearPending \notin {"idle", "busy"} THEN clearPending
       ELSE IF TokenFresh THEN "cached"
       ELSE IF InFlight /= {} THEN "joined"
       ELSE "refetched"
  /\ UNCHANGED <<loopVars, restOfToken>>

\* A task calls clearTokenCache().
ClientClear ==
  /\ microtasks = << >>
  /\ ClearTokenCache
  /\ clearPending' = IF InFlight = {} THEN "idle" ELSE "busy"
  /\ UNCHANGED <<clientPc, clientRes, loopVars, restOfToken>>

\* The continuation of a caller whose awaited promise has settled.
ClientResume ==
  /\ microtasks /= << >>
  /\ Head(microtasks).c.kind = "client"
  /\ LET c == Head(microtasks).c.id
     IN /\ clientPc' = [clientPc EXCEPT ![c] = "idle"]
        /\ clientRes' = [clientRes EXCEPT ![c] = Head(microtasks).res]
  /\ microtasks' = Tail(microtasks)
  /\ UNCHANGED <<now, tokVars, clearPending, restOfToken>>

\* The token endpoint answers a fetch.
FetchOk(f, ver, expiresIn) ==
  /\ DoFetchTokenOk(f, ver, expiresIn)
  /\ UNCHANGED <<now, clientVars, restOfToken>>

FetchFail(f, rate) ==
  /\ DoFetchTokenFail(f, rate)
  /\ UNCHANGED <<now, clientVars, restOfToken>>

\* ------------------------------------------------------------------------
\* OutboundDispatcher: sendMedia
\* ------------------------------------------------------------------------
\* A REST call of sendMedia that carries replyToId as msg_id.
MediaIssue(s, ctx, pc) ==
  /\ sendPc' = [sendPc EXCEPT ![s] = pc]
  /\ sendCtx' = [sendCtx EXCEPT ![s] = ctx]
  /\ passiveIssued' =
       IF ctx.replyToId /= NoMsg
       THEN [passiveIssued EXCEPT ![ctx.replyToId] = @ + 1]
       ELSE passiveIssued
  /\ MsgSeqCallIf(ctx.replyToId /= NoMsg /\ ctx.to \in {"c2c", "group"}, ctx.replyToId)

\* The quota record of the message after a REST call of sendMedia with a
\* msg_id has succeeded.
MediaRecord(tr, messageId) == tr

\* The successful passive replies to m the server has seen.
PassiveOkAfter(ok, m) ==
  IF ok /\ m /= NoMsg
  THEN [passiveOk EXCEPT ![m] =
          IF @.n = 0 \/ now - @.first > MESSAGE_REPLY_TTL
          THEN [first |-> now, n |-> 1]
          ELSE [@ EXCEPT !.n = @ + 1]]
  ELSE passiveOk

\* sendMedia up to its first REST call, with the token in the cache;
\* valid: the account is configured and mediaUrl is of a supported form.
\* The field fallback of the context holds "the call has a caption".
SendMedia(s, to, text, reply, valid) ==
  /\ microtasks = << >>
  /\ sendPc[s] = "idle"
  /\ sendCalls < MaxSendCalls
  /\ TokenFresh
  /\ sendCalls' = sendCalls + 1
  /\ IF valid
     THEN /\ MediaIssue(s, [to |-> to, replyToId |-> reply, fallback |-> ~Blank(text)],
                        "media")
          /\ UNCHANGED sendResult
     ELSE /\ SendReturn(s, "error")
          /\ UNCHANGED <<seqVars, passiveIssued>>
  /\ UNCHANGED <<loopVars, tokVars, messageReplyTracker, sendLast, passiveOk,
                 restOfLimiter>>

\* The image call (for a channel: the text call) of sendMedia settles; with
\* a caption, the text call to a C2C or group target follows.
MediaRestDone(s, ok) ==
  /\ microtasks = << >>
  /\ sendPc[s] = "media"
  /\ LET ctx == sendCtx[s] IN
       /\ messageReplyTracker' =
            IF ok /\ ctx.replyToId /= NoMsg
            THEN MediaRecord(messageReplyTracker, ctx.replyToId)
            ELSE messageReplyTracker
       /\ passiveOk' = PassiveOkAfter(ok, ctx.replyToId)
       /\ IF ok /\ ctx.fallback /\ ctx.to \in {"c2c", "group"}
          THEN /\ MediaIssue(s, ctx, "caption")
               /\ UNCHANGED sendResult
          ELSE /\ SendReturn(s, IF ok THEN "sent" ELSE "error")
               /\ UNCHANGED <<seqVars, passiveIssued>>
  /\ UNCHANGED <<loopVars, tokVars, sendCalls, sendLast, restOfLimiter>>

\* The text call after the image settles; its failure is only logged.
MediaCaptionDone(s, ok) ==
  /\ microtasks = << >>
  /\ sendPc[s] = "caption"
  /\ LET ctx == sendCtx[s] IN
       /\ messageReplyTracker' =
            IF ok /\ ctx.replyToId /= NoMsg
            THEN MediaRecord(messageReplyTracker, ctx.replyToId)
            ELSE messageReplyTracker
       /\ passiveOk' = PassiveOkAfter(ok, ctx.replyToId)
  /\ SendReturn(s, "sent")
  /\ UNCHANGED <<loopVars, tokVars, seqVars, sendCalls, sendLast, passiveIssued,
                 restOfLimiter>>

\* Wall-clock time passes.
Tick(d) ==
  /\ microtasks = << >>
  /\ now + d <= MaxTime
  /\ now' = now + d
  /\ UNCHANGED <<microtasks, tokVars, clientVars, restOfToken>>

\* SpecSeq: replies to any message ids, in any order.
SeqCall(msgId) ==
  /\ SumLen(seqReturned, MsgIds) < MaxSeqCalls
  /\ MsgSeqCall(msgId)
  /\ seqReturned' = [seqReturned EXCEPT ![msgId] =
                       Append(@, GetNextMsgSeq(msgSeqTracker, msgId))]
  /\ UNCHANGED restOfSeq

\* The same call, with the order of the calls kept.
SeqCallServed(msgId) ==
  /\ Len(seqServed) < MaxSeqCalls
  /\ MsgSeqCall(msgId)
  /\ seqReturned' = [seqReturned EXCEPT ![msgId] =
                       Append(@, GetNextMsgSeq(msgSeqTracker, msgId))]
  /\ seqServed' = Append(seqServed, msgId)
  /\ UNCHANGED <<loopVars, tokVars, clientVars, limVars, chunkVars, gwVars, apiVars,
                 dlvVars, eventLog, handleState>>

\* ------------------------------------------------------------------------
\* GatewayFSM and ReconnectPolicy: startGateway of gateway.ts
\* ------------------------------------------------------------------------
cleanupVars == <<heartbeatInterval, intervals, sockets, currentWs>>
scheduleVars == <<reconnectTimer, timers, reconnectAttempts>>
sessionVars == <<sessionId, lastSeq, savedSession>>
intentVars == <<intentLevelIndex, lastSuccessfulIntentLevel>>

\* cleanup(): stop the ticker, close the current socket if it is OPEN or
\* CONNECTING, forget it.  socks is the socket table the caller has reached.
Cleanup(socks) ==
  /\ intervals' = IF heartbeatInterval /= Null
                  THEN intervals \ {heartbeatInterval} ELSE intervals
  /\ heartbeatInterval' = Null
  /\ sockets' = IF currentWs /= Null
                   /\ socks[currentWs].readyState \in {"OPEN", "CONNECTING"}
                THEN [socks EXCEPT ![currentWs].readyState = "CLOSING"]
                ELSE socks
  /\ currentWs' = Null

Min(a, b) == IF a < b THEN a ELSE b

\* getReconnectDelay()
GetReconnectDelay ==
  RECONNECT_DELAYS[Min(reconnectAttempts, Len(RECONNECT_DELAYS) - 1) + 1]

FreeTimer(tm) == CHOOSE t \in TimerIds : ~tm[t].pending

ScheduleReconnectNoCancel(customDelay) ==
  IF isAborted \/ reconnectAttempts >= MAX_RECONNECT_ATTEMPTS
  THEN UNCHANGED scheduleVars
  ELSE /\ \E t \in TimerIds : ~timers[t].pending
       /\ timers' = [timers EXCEPT ![FreeTimer(timers)] =
                       [pending |-> TRUE,
                        delay |-> IF customDelay /= 0 THEN customDelay
                                  ELSE GetReconnectDelay,
                        custom |-> customDelay /= 0]]
       /\ reconnectTimer' = FreeTimer(timers)
       /\ reconnectAttempts' = reconnectAttempts + 1

ScheduleReconnectNoCap(customDelay) ==
  IF isAborted
  THEN UNCHANGED scheduleVars
  ELSE LET cleared == IF reconnectTimer /= Null
                      THEN [timers EXCEPT ![reconnectTimer] = IdleTimer]
                      ELSE timers
       IN /\ timers' = [cleared EXCEPT ![FreeTimer(cleared)] =
                          [pending |-> TRUE,
                           delay |-> IF customDelay /= 0 THEN customDelay
                                     ELSE GetReconnectDelay,
                           custom |-> customDelay /= 0]]
          /\ reconnectTimer' = FreeTimer(cleared)
          /\ reconnectAttempts' = reconnectAttempts + 1

\* scheduleReconnect(customDelay?); customDelay = 0 stands for no argument.
ScheduleReconnect(customDelay) ==
  IF isAborted \/ reconnectAttempts >= MAX_RECONNECT_ATTEMPTS
  THEN UNCHANGED scheduleVars
  ELSE LET cleared == IF reconnectTimer /= Null
                      THEN [timers EXCEPT ![reconnectTimer] = IdleTimer]
                      ELSE timers
       IN /\ timers' = [cleared EXCEPT ![FreeTimer(cleared)] =
                          [pending |-> TRUE,
                           delay |-> IF customDelay /= 0 THEN customDelay
                                     ELSE GetReconnectDelay,
                           custom |-> customDelay /= 0]]
          /\ reconnectTimer' = FreeTimer(cleared)
          /\ reconnectAttempts' = reconnectAttempts + 1

FreeConn == CHOOSE k \in ConnIds : connPc[k] = "idle"

\* connect() up to its first suspension.  With a fresh cached token the
\* await of getAccessToken resumes at once, into the call of getGatewayUrl.
Connect ==
  /\ connectCalls' = connectCalls + 1
  /\ IF isConnecting
     THEN UNCHANGED <<isConnecting, cleanupVars, shouldRefreshToken, tokVars, connPc>>
     ELSE /\ \E k \in ConnIds : connPc[k] = "idle"
          /\ isConnecting' = TRUE
          /\ Cleanup(sockets)
          /\ shouldRefreshToken' = FALSE
          /\ cachedToken' = IF shouldRefreshToken THEN NullCached ELSE cachedToken
          /\ IF ~shouldRefreshToken /\ TokenFresh
             THEN /\ connPc' = [connPc EXCEPT ![FreeConn] = "url"]
                  /\ UNCHANGED <<tokenFetchPromise, fetches>>
             ELSE /\ GetAccessToken(Conn(FreeConn), 1)
                  /\ connPc' = [connPc EXCEPT ![FreeConn] = "token"]

\* The catch block of connect().
ConnectCatch(k, rate) ==
  /\ isConnecting' = FALSE
  /\ failedAttempts' = failedAttempts + 1
  /\ connPc' = [connPc EXCEPT ![k] = "idle"]
  /\ ScheduleReconnect(IF rate THEN RATE_LIMIT_DELAY ELSE 0)

\* startGateway: restore the persisted session, register the handlers,
\* call connect().
StartGateway ==
  /\ mainPc = "start"
  /\ microtasks = << >>
  /\ mainPc' = "running"
  /\ IF savedSession /= NoSession
     THEN /\ sessionId' = savedSession.sessionId
          /\ lastSeq' = savedSession.lastSeq
          /\ intentLevelIndex' = savedSession.intentLevelIndex
          /\ lastSuccessfulIntentLevel' = savedSession.intentLevelIndex
     ELSE UNCHANGED <<sessionId, lastSeq, intentVars>>
  /\ Connect
  /\ UNCHANGED <<microtasks, scheduleVars, isAborted, lastConnectTime, failedAttempts,
                 quickDisconnectCount, savedSession, fatalClose, identifyLog, queueVars,
                 refreshVars, restOfGateway>>

\* The reconnect timer fires.
TimerFireWithin(t, maxCalls) ==
  /\ microtasks = << >>
  /\ timers[t].pending
  /\ connectCalls < maxCalls
  /\ timers' = [timers EXCEPT ![t] = IdleTimer]
  /\ reconnectTimer' = Null
  /\ IF ~isAborted
     THEN Connect
     ELSE UNCHANGED <<connectCalls, isConnecting, cleanupVars, shouldRefreshToken,
                      tokVars, connPc>>
  /\ UNCHANGED <<microtasks, mainPc, reconnectAttempts, isAborted, sessionVars,
                 intentVars, lastConnectTime, failedAttempts, quickDisconnectCount,
                 fatalClose, identifyLog,
                 queueVars, refreshVars, restOfGateway>>

TimerFire(t) == TimerFireWithin(t, MaxConnectCalls)

\* connect() resumes from getAccessToken: on to getGatewayUrl, or the catch.
ConnTokenResume ==
  /\ microtasks /= << >>
  /\ Head(microtasks).c.kind = "conn"
  /\ microtasks' = Tail(microtasks)
  /\ LET k == Head(microtasks).c.id
         res == Head(microtasks).res
     IN IF res.ok
        THEN /\ connPc' = [connPc EXCEPT ![k] = "url"]
             /\ UNCHANGED <<isConnecting, failedAttempts, scheduleVars>>
        ELSE ConnectCatch(k, res.rate)
  /\ UNCHANGED <<tokVars, mainPc, isAborted, cleanupVars, sessionVars, intentVars,
                 lastConnectTime, quickDisconnectCount, shouldRefreshToken,
                 connectCalls, fatalClose, identifyLog, queueVars, refreshVars, restOfGateway>>

FreeSocket == CHOOSE w \in SocketIds : sockets[w].readyState = "CLOSED" /\ w \notin intervals

\* getGatewayUrl answers: new WebSocket(gatewayUrl), currentWs = ws.
ConnUrlOk(k) ==
  /\ microtasks = << >>
  /\ connPc[k] = "url"
  /\ \E w \in SocketIds : sockets[w].readyState = "CLOSED" /\ w \notin intervals
  /\ connPc' = [connPc EXCEPT ![k] = "idle"]
  /\ sockets' = [sockets EXCEPT ![FreeSocket] =
                   [NoSocket EXCEPT !.readyState = "CONNECTING"]]
  /\ currentWs' = FreeSocket
  /\ UNCHANGED <<microtasks, tokVars, mainPc, isAborted, heartbeatInterval, intervals,
                 isConnecting, scheduleVars, sessionVars, intentVars,
                 lastConnectTime, failedAttempts, quickDisconnectCount, shouldRefreshToken,
                 connectCalls, fatalClose, identifyLog, queueVars, refreshVars, restOfGateway>>

\* getGatewayUrl fails.
ConnUrlFail(k, rate) ==
  /\ microtasks = << >>
  /\ connPc[k] = "url"
  /\ ConnectCatch(k, rate)
  /\ UNCHANGED <<microtasks, tokVars, mainPc, isAborted, cleanupVars, sessionVars,
                 intentVars, lastConnectTime, quickDisconnectCount,
                 shouldRefreshToken, connectCalls, fatalClose, identifyLog, queueVars,
                 refreshVars, restOfGateway>>

\* ------------------------------------------------------------------------
\* InboundQueue and its worker
\* ------------------------------------------------------------------------
EnqueueNoDrop(q, msg) == Append(q, msg)
EnqueueDropNewest(q, msg) ==
  IF Len(q) >= MESSAGE_QUEUE_SIZE THEN q ELSE Append(q, msg)

\* enqueueMessage(msg): on a full queue the oldest entry is dropped.
EnqueueMessage(q, msg) ==
  IF Len(q) >= MESSAGE_QUEUE_SIZE THEN Append(Tail(q), msg) ELSE Append(q, msg)

\* processLoop from the head of its while loop to its next await; log is
\* the handleLog the caller has reached.
ProcessLoop(log) ==
  /\ UNCHANGED enqueueLog
  /\ IF isAborted
     THEN /\ messageProcessorRunning' = FALSE
          /\ workerPc' = "off"
          /\ handleLog' = log
          /\ UNCHANGED messageQueue
     ELSE IF messageQueue = << >>
     THEN /\ messageProcessorRunning' = TRUE
          /\ workerPc' = "sleep"
          /\ handleLog' = log
          /\ UNCHANGED messageQueue
     ELSE /\ messageProcessorRunning' = TRUE
          /\ workerPc' = "handle"
          /\ handleLog' = [log EXCEPT !.inProgress = @ + 1, !.last = Head(messageQueue)]
          /\ messageQueue' = Tail(messageQueue)

\* startMessageProcessor(handleMessage) without the test of
\* messageProcessorRunning
StartMessageProcessorUnguarded == ProcessLoop(handleLog)

\* startMessageProcessor(handleMessage)
StartMessageProcessor ==
  IF messageProcessorRunning THEN UNCHANGED queueVars ELSE ProcessLoop(handleLog)

\* The 50 ms sleep of the idle worker ends.
WorkerWake ==
  /\ microtasks = << >>
  /\ workerPc = "sleep"
  /\ ProcessLoop(handleLog)
  /\ UNCHANGED <<loopVars, tokVars, gwState, gwEnv, refreshVars, clientVars,
                 seqVars, seqReturned, limVars, chunkVars, extVars>>

\* handleMessage(msg) settles (its own errors are caught inside or by the loop).
WorkerDone ==
  /\ microtasks = << >>
  /\ workerPc = "handle"
  /\ ProcessLoop([handleLog EXCEPT !.inProgress = @ - 1, !.failed = FALSE])
  /\ UNCHANGED <<loopVars, tokVars, gwState, gwEnv, refreshVars, clientVars,
                 seqVars, seqReturned, limVars, chunkVars, extVars>>

\* handleMessage(msg) throws: the catch block of the loop logs the error.
WorkerFailed ==
  /\ microtasks = << >>
  /\ workerPc = "handle"
  /\ ProcessLoop([handleLog EXCEPT !.inProgress = @ - 1, !.failed = TRUE])
  /\ UNCHANGED <<loopVars, tokVars, gwState, gwEnv, refreshVars, clientVars,
                 seqVars, seqReturned, limVars, chunkVars, extVars>>

\* ------------------------------------------------------------------------
\* Background token refresh (api.ts)
\* ------------------------------------------------------------------------
FreeRefresh == CHOOSE r \in RefreshIds : refreshPc[r] = "off"

\* refreshLoop of instance r from the head of its while loop to its next
\* await: getAccessToken, then the sleep until the next refresh.
RefreshLoop(r) ==
  IF refreshAborted[r]
  THEN /\ refreshPc' = [refreshPc EXCEPT ![r] = "off"]
       /\ backgroundRefreshRunning' = FALSE
       /\ UNCHANGED <<tokenFetchPromise, fetches>>
  ELSE IF TokenFresh
  THEN /\ refreshPc' = [refreshPc EXCEPT ![r] = "sleep"]
       /\ UNCHANGED <<backgroundRefreshRunning, tokenFetchPromise, fetches>>
  ELSE /\ GetAccessToken(Refresh(r), 1)
       /\ refreshPc' = [refreshPc EXCEPT ![r] = "token"]
       /\ UNCHANGED backgroundRefreshRunning

\* startBackgroundTokenRefresh(appId, clientSecret)
StartBackgroundTokenRefresh ==
  IF backgroundRefreshRunning
  THEN UNCHANGED <<refreshVars, tokenFetchPromise, fetches>>
  ELSE /\ \E r \in RefreshIds : refreshPc[r] = "off"
       /\ backgroundRefreshAbortController' = FreeRefresh
       /\ refreshAborted' = [refreshAborted EXCEPT ![FreeRefresh] = FALSE]
       /\ IF TokenFresh
          THEN /\ refreshPc' = [refreshPc EXCEPT ![FreeRefresh] = "sleep"]
               /\ UNCHANGED <<tokenFetchPromise, fetches>>
          ELSE /\ GetAccessToken(Refresh(FreeRefresh), 1)
               /\ refreshPc' = [refreshPc EXCEPT ![FreeRefresh] = "token"]
       /\ backgroundRefreshRunning' = TRUE

\* stopBackgroundTokenRefresh(): the signal is aborted, which rejects the
\* sleep of the loop; mt is the microtask queue the caller has reached.
StopBackgroundTokenRefresh(mt) ==
  /\ backgroundRefreshRunning' = FALSE
  /\ backgroundRefreshAbortController' = Null
  /\ IF backgroundRefreshAbortController /= Null
     THEN /\ refreshAborted' =
               [refreshAborted EXCEPT ![backgroundRefreshAbortController] = TRUE]
          /\ microtasks' =
               IF refreshPc[backgroundRefreshAbortController] = "sleep"
               THEN Append(mt, [c |-> Refresh(backgroundRefreshAbortController),
                                res |-> ErrResult(FALSE)])
               ELSE mt
     ELSE /\ microtasks' = mt
          /\ UNCHANGED refreshAborted
  /\ UNCHANGED refreshPc

\* refreshLoop resumes: from getAccessToken (then it sleeps, or leaves when
\* its signal is aborted), or from a sleep that the abort rejected.
RefreshResume ==
  /\ microtasks /= << >>
  /\ Head(microtasks).c.kind = "refresh"
  /\ microtasks' = Tail(microtasks)
  /\ LET r == Head(microtasks).c.id
     IN IF refreshAborted[r]
        THEN /\ refreshPc' = [refreshPc EXCEPT ![r] = "off"]
             /\ backgroundRefreshRunning' = FALSE
        ELSE /\ refreshPc' = [refreshPc EXCEPT ![r] = "sleep"]
             /\ UNCHANGED backgroundRefreshRunning
  /\ UNCHANGED <<now, tokVars, gwState, gwEnv, queueVars, refreshAborted,
                 backgroundRefreshAbortController, clientVars, seqVars,
                 seqReturned, limVars, chunkVars, extVars>>

\* The sleep of refresh loop r ends.
RefreshWake(r) ==
  /\ microtasks = << >>
  /\ refreshPc[r] = "sleep"
  /\ ~refreshAborted[r]
  /\ RefreshLoop(r)
  /\ UNCHANGED <<loopVars, cachedToken, gwState, gwEnv, queueVars, refreshAborted,
                 backgroundRefreshAbortController, clientVars, seqVars,
                 seqReturned, limVars, chunkVars, extVars>>

\* startBackgroundTokenRefresh / stopBackgroundTokenRefresh called by any
\* user of api.ts, each from a task of its own.
StartRefreshCall ==
  /\ microtasks = << >>
  /\ StartBackgroundTokenRefresh
  /\ UNCHANGED <<loopVars, cachedToken, gwState, gwEnv, queueVars, clientVars,
                 seqVars, seqReturned, limVars, chunkVars, extVars>>

StopRefreshCall ==
  /\ microtasks = << >>
  /\ StopBackgroundTokenRefresh(microtasks)
  /\ UNCHANGED <<now, tokVars, gwState, gwEnv, queueVars, clientVars,
                 seqVars, seqReturned, limVars, chunkVars, extVars>>

\* ------------------------------------------------------------------------
\* GatewayFSM: the handlers of a WebSocket
\* ------------------------------------------------------------------------
\* Frames of the server: op, t, s (0 = absent), the session_id of READY or
\* the id of a message event, the d of op 9.
Frame(op, t, sq, id, canResume) ==
  [op |-> op, t |-> t, s |-> sq, id |-> id, canResume |-> canResume]

MessageEvents ==
  <<"C2C_MESSAGE_CREATE", "AT_MESSAGE_CREATE", "DIRECT_MESSAGE_CREATE",
    "GROUP_AT_MESSAGE_CREATE">>
MessageEventTypes == {MessageEvents[i] : i \in 1..Len(MessageEvents)}

ControlFrames ==
  {Frame(10, "", 0, 0, FALSE), Frame(11, "", 0, 0, FALSE), Frame(7, "", 0, 0, FALSE),
   Frame(9, "", 0, 0, FALSE), Frame(9, "", 0, 0, TRUE)}
\* READY announces a session other than the one the store may hold (1).
SessionFrames ==
  {Frame(0, "READY", sq, id, FALSE) : sq \in 1..MaxSeq, id \in SessionIds \ {1}}
    \cup {Frame(0, t, sq, 0, FALSE) : t \in {"RESUMED", "OTHER"}, sq \in 1..MaxSeq}
\* One event type per message id: ids 1, 5, ... are C2C, ids 2, 6, ... guild.
MessageFrames ==
  {Frame(0, MessageEvents[((m - 1) % 4) + 1], sq, m, FALSE) :
     m \in MsgIds, sq \in 1..MaxSeq}

\* INTENT_LEVELS[i].intents, named by the rank of the level
Intents(i) == Min(i, NumIntentLevels - 1) + 1

Resume(sid, sq) == [op |-> 6, session_id |-> sid, seq |-> sq, intents |-> 0]
Identify ==
  [op |-> 2, session_id |-> Null, seq |-> Null,
   intents |-> Intents(IF lastSuccessfulIntentLevel >= 0
                       THEN lastSuccessfulIntentLevel ELSE intentLevelIndex)]

HelloReplySeqOnly(sid, sq) ==
  IF sq /= Null THEN Resume(sid, sq) ELSE Identify

\* case 10: the frame the client answers Hello with.
HelloReply(sid, sq) ==
  IF sid /= Null /\ sq /= Null THEN Resume(sid, sq) ELSE Identify

\* ws.send(frame) on an OPEN socket.
Sent(sock, frame) ==
  [sock EXCEPT !.firstSent = IF @ = NoFrame THEN frame ELSE @,
               !.lastSent = frame.op]

\* The session saveSession writes; sq is the lastSeq the handler has reached.
SaveSession(sid, sq, level) ==
  [sessionId |-> sid, lastSeq |-> sq, intentLevelIndex |-> level]
SavedLevel ==
  IF lastSuccessfulIntentLevel >= 0 THEN lastSuccessfulIntentLevel ELSE intentLevelIndex

\* ws.on("open")
OnOpen(w) ==
  /\ microtasks = << >>
  /\ sockets[w].readyState = "CONNECTING"
  /\ sockets' = [sockets EXCEPT ![w].readyState = "OPEN", ![w].opened = TRUE]
  /\ isConnecting' = FALSE
  /\ reconnectAttempts' = 0
  /\ lastConnectTime' = 1
  /\ failedAttempts' = 0
  /\ StartMessageProcessor
  /\ StartBackgroundTokenRefresh
  /\ UNCHANGED <<loopVars, cachedToken, mainPc, isAborted, currentWs,
                 heartbeatInterval, intervals, reconnectTimer, timers, sessionVars,
                 intentVars, quickDisconnectCount, shouldRefreshToken, connPc,
                 connectCalls, fatalClose, identifyLog, restOfSocket>>

SocketOpen(w) == OnOpen(w) /\ UNCHANGED eventLog

\* The same handler, the open being logged.
SocketOpenLogged(w) ==
  /\ OnOpen(w)
  /\ eventLog' = [kind |-> "open", op |-> 0, t |-> "", d |-> FALSE, code |-> 0,
                  quick |-> FALSE, sock |-> w, flip |-> ~eventLog.flip,
                  inv |-> eventLog.inv, shake |-> NoInvalid, late |-> FALSE]

\* case 10 (Hello): Resume or Identify, then the heartbeat ticker.  send on a
\* socket that is no longer OPEN sends nothing; depending on the version of
\* ws it throws, which ends the handler in its catch (throws).
OnHello(w, sq, saved, throws) ==
  /\ sockets' = IF sockets[w].readyState = "OPEN"
                THEN [sockets EXCEPT ![w] = Sent(@, HelloReply(sessionId, sq))]
                ELSE sockets
  /\ IF sockets[w].readyState /= "OPEN" /\ throws
     THEN UNCHANGED <<heartbeatInterval, intervals>>
     ELSE /\ intervals' = (IF heartbeatInterval /= Null
                           THEN intervals \ {heartbeatInterval} ELSE intervals)
                            \cup {w}
          /\ heartbeatInterval' = w
  /\ savedSession' = saved
  /\ UNCHANGED <<currentWs, sessionId, intentVars, shouldRefreshToken, scheduleVars,
                 queueVars>>

\* case 0 (Dispatch)
OnDispatch(f, sq, saved) ==
  /\ sessionId' = IF f.t = "READY" THEN f.id ELSE sessionId
  /\ lastSuccessfulIntentLevel' =
       IF f.t = "READY" THEN intentLevelIndex ELSE lastSuccessfulIntentLevel
  /\ savedSession' =
       IF f.t = "READY" THEN SaveSession(f.id, sq, intentLevelIndex)
       ELSE IF f.t = "RESUMED" /\ sessionId /= Null
       THEN SaveSession(sessionId, sq, SavedLevel)
       ELSE saved
  /\ messageQueue' =
       IF f.t \in MessageEventTypes THEN EnqueueMessage(messageQueue, f.id)
       ELSE messageQueue
  /\ enqueueLog' =
       IF f.t \in MessageEventTypes
       THEN [calls |-> enqueueLog.calls + 1, last |-> f.id,
             full |-> Len(messageQueue) >= MESSAGE_QUEUE_SIZE]
       ELSE enqueueLog
  /\ UNCHANGED <<cleanupVars, intentLevelIndex, shouldRefreshToken, scheduleVars,
                 messageProcessorRunning, workerPc, handleLog>>

\* case 7 (Reconnect)
OnReconnect(saved) ==
  /\ Cleanup(sockets)
  /\ ScheduleReconnect(0)
  /\ savedSession' = saved
  /\ UNCHANGED <<sessionId, intentVars, shouldRefreshToken, queueVars>>

\* case 9 (Invalid Session), the level rising without the test of the
\* last level
OnInvalidSessionNoBound(f, saved) ==
  /\ IF ~f.canResume
     THEN /\ sessionId' = Null
          /\ savedSession' = NoSession
          /\ intentLevelIndex' = intentLevelIndex + 1
          /\ UNCHANGED shouldRefreshToken
     ELSE /\ savedSession' = saved
          /\ UNCHANGED <<sessionId, intentLevelIndex, shouldRefreshToken>>
  /\ Cleanup(sockets)
  /\ ScheduleReconnect(INVALID_SESSION_DELAY)
  /\ UNCHANGED <<lastSuccessfulIntentLevel, queueVars>>

\* case 9 (Invalid Session), the session dropped whatever d says
OnInvalidSessionAlwaysClears(f, saved) ==
  /\ sessionId' = Null
  /\ savedSession' = NoSession
  /\ IF intentLevelIndex < NumIntentLevels - 1
     THEN /\ intentLevelIndex' = intentLevelIndex + 1
          /\ UNCHANGED shouldRefreshToken
     ELSE /\ shouldRefreshToken' = TRUE
          /\ UNCHANGED intentLevelIndex
  /\ Cleanup(sockets)
  /\ ScheduleReconnect(INVALID_SESSION_DELAY)
  /\ UNCHANGED <<lastSuccessfulIntentLevel, queueVars>>

\* case 9 (Invalid Session)
OnInvalidSession(f, saved) ==
  /\ IF ~f.canResume
     THEN /\ sessionId' = Null
          /\ savedSession' = NoSession
          /\ IF intentLevelIndex < NumIntentLevels - 1
             THEN /\ intentLevelIndex' = intentLevelIndex + 1
                  /\ UNCHANGED shouldRefreshToken
             ELSE /\ shouldRefreshToken' = TRUE
                  /\ UNCHANGED intentLevelIndex
     ELSE /\ savedSession' = saved
          /\ UNCHANGED <<sessionId, intentLevelIndex, shouldRefreshToken>>
  /\ Cleanup(sockets)
  /\ ScheduleReconnect(INVALID_SESSION_DELAY)
  /\ UNCHANGED <<lastSuccessfulIntentLevel, queueVars>>

\* The Identify frames of the client and their answers: Hello answered with
\* Identify on the open socket w; any other frame on the socket whose Identify
\* awaits its answer, where op 9 with d=false on a level above the lowest
\* calls for the next level.
IdentifyLogged(w, f, sq) ==
  IF f.op = 10 /\ sockets[w].readyState = "OPEN" /\ HelloReply(sessionId, sq).op = 2
  THEN [sock |-> w, level |-> HelloReply(sessionId, sq).intents - 1,
        expect |-> -1, flip |-> ~identifyLog.flip]
  ELSE IF identifyLog.sock /= w THEN identifyLog
  ELSE [sock |-> 0, level |-> -1,
        expect |-> IF f.op = 9 /\ ~f.canResume
                      /\ identifyLog.level < NumIntentLevels - 1
                   THEN identifyLog.level + 1 ELSE identifyLog.expect,
        flip |-> identifyLog.flip]

\* ws.on("message"): a frame arrives on a socket that has opened and whose
\* close event has not come yet.
OnMessage(w, f, throws) ==
  /\ microtasks = << >>
  /\ sockets[w].opened
  /\ sockets[w].readyState \in {"OPEN", "CLOSING"}
  /\ throws => (f.op = 10 /\ sockets[w].readyState /= "OPEN")
  /\ f.t \in MessageEventTypes => enqueueLog.calls < MaxEnqueues
  /\ LET sq == IF f.s /= 0 THEN f.s ELSE lastSeq
         saved == IF f.s /= 0 /\ sessionId /= Null
                  THEN SaveSession(sessionId, sq, SavedLevel) ELSE savedSession
     IN /\ lastSeq' = IF f.op = 9 /\ ~f.canResume THEN Null ELSE sq
        /\ identifyLog' = IdentifyLogged(w, f, sq)
        /\ CASE f.op = 10 -> OnHello(w, sq, saved, throws)
             [] f.op = 0 -> OnDispatch(f, sq, saved)
             [] f.op = 7 -> OnReconnect(saved)
             [] f.op = 9 -> OnInvalidSession(f, saved)
             [] OTHER -> /\ savedSession' = saved
                         /\ UNCHANGED <<cleanupVars, sessionId, intentVars,
                                        shouldRefreshToken, scheduleVars, queueVars>>
  /\ UNCHANGED <<loopVars, tokVars, mainPc, isAborted, lastConnectTime, failedAttempts,
                 quickDisconnectCount, isConnecting, connPc, connectCalls,
                 fatalClose, refreshVars, restOfSocket>>

SocketFrame(w, f, throws) == OnMessage(w, f, throws) /\ UNCHANGED eventLog

\* The same handler, the frame it ran for being logged.
SocketFrameLogged(w, f) ==
  /\ OnMessage(w, f, FALSE)
  /\ LET handshake == f.op = 10 /\ sockets[w].readyState = "OPEN"
     IN eventLog' =
          [kind |-> "frame", op |-> f.op, t |-> f.t, d |-> f.canResume,
           code |-> 0, quick |-> FALSE, sock |-> w, flip |-> ~eventLog.flip,
           inv |-> IF f.op = 9
                   THEN [on |-> TRUE, d |-> f.canResume, sock |-> w, code |-> 0]
                   ELSE IF handshake THEN NoInvalid ELSE eventLog.inv,
           shake |-> IF handshake THEN eventLog.inv ELSE NoInvalid,
           late |-> eventLog.late]

\* 4900 <= code <= 4913
InternalError(code) == code >= 4900 /\ code <= 4913

\* ws.on("close"): the codes after which the next connect refreshes the token
RefreshOnInternalOnly(code) == InternalError(code)
RefreshOnClose(code) == code = 4009 \/ InternalError(code)

\* ws.on("close"): the codes that drop the session held in memory
SessionKeptOnClose(code) == FALSE
SessionLostOnClose(code) == InternalError(code)

\* ws.on("close").  quick: Date.now() - lastConnectTime is below
\* QUICK_DISCONNECT_THRESHOLD.  A socket that never opened closes with 1006.
\* The socket is CLOSED when the handler runs and is not used again: its
\* record is cleared.
OnClose(w, code, quick) ==
  /\ microtasks = << >>
  /\ sockets[w].readyState \in {"CONNECTING", "OPEN", "CLOSING"}
  /\ ~sockets[w].opened => code = 1006
  /\ quick => lastConnectTime > 0
  /\ isConnecting' = FALSE
  /\ failedAttempts' = IF sockets[w].opened THEN failedAttempts ELSE failedAttempts + 1
  /\ identifyLog' = IF identifyLog.sock = w
                    THEN [identifyLog EXCEPT !.sock = 0, !.level = -1]
                    ELSE identifyLog
  /\ LET socks == [sockets EXCEPT ![w] = NoSocket]
         count == quickDisconnectCount + 1
     IN IF code \in {4914, 4915}
        THEN /\ Cleanup(socks)
             /\ fatalClose' = TRUE
             /\ UNCHANGED <<shouldRefreshToken, sessionId, lastSeq,
                            quickDisconnectCount, scheduleVars>>
        ELSE /\ shouldRefreshToken' =
                  IF RefreshOnClose(code) THEN TRUE ELSE shouldRefreshToken
             /\ sessionId' = IF SessionLostOnClose(code) THEN Null ELSE sessionId
             /\ lastSeq' = IF SessionLostOnClose(code) THEN Null ELSE lastSeq
             /\ Cleanup(socks)
             /\ UNCHANGED fatalClose
             /\ IF quick /\ lastConnectTime > 0
                THEN IF count >= MAX_QUICK_DISCONNECT_COUNT
                     THEN /\ quickDisconnectCount' = 0
                          /\ IF ~isAborted /\ code /= 1000
                             THEN ScheduleReconnect(RATE_LIMIT_DELAY)
                             ELSE UNCHANGED scheduleVars
                     ELSE /\ quickDisconnectCount' = count
                          /\ IF ~isAborted /\ code /= 1000
                             THEN ScheduleReconnect(0)
                             ELSE UNCHANGED scheduleVars
                ELSE /\ quickDisconnectCount' = 0
                     /\ IF ~isAborted /\ code /= 1000
                        THEN ScheduleReconnect(0)
                        ELSE UNCHANGED scheduleVars
  /\ UNCHANGED <<loopVars, tokVars, mainPc, isAborted, lastConnectTime, savedSession,
                 intentVars, connPc, connectCalls, queueVars, refreshVars,
                 restOfSocket>>

SocketClose(w, code, quick) == OnClose(w, code, quick) /\ UNCHANGED eventLog

\* The same handler, the close event it ran for being logged.
SocketCloseLogged(w, code, quick) ==
  /\ OnClose(w, code, quick)
  /\ eventLog' = [kind |-> "close", op |-> 0, t |-> "", d |-> FALSE, code |-> code,
                  quick |-> quick, sock |-> w, flip |-> ~eventLog.flip,
                  inv |-> IF RefreshOnClose(code)
                          THEN [on |-> TRUE, d |-> FALSE, sock |-> w, code |-> code]
                          ELSE eventLog.inv,
                  shake |-> NoInvalid, late |-> eventLog.late]

\* The same handler under a clock that only moves forward: once a close has
\* come later than the threshold after the last open, no close is quick
\* until a socket opens.
SocketCloseTimed(w, code, quick) ==
  /\ quick => ~eventLog.late
  /\ OnClose(w, code, quick)
  /\ eventLog' = [kind |-> "close", op |-> 0, t |-> "", d |-> FALSE, code |-> code,
                  quick |-> quick, sock |-> w, flip |-> ~eventLog.flip,
                  inv |-> IF RefreshOnClose(code)
                          THEN [on |-> TRUE, d |-> FALSE, sock |-> w, code |-> code]
                          ELSE eventLog.inv,
                  shake |-> NoInvalid,
                  late |-> eventLog.late \/ (~quick /\ lastConnectTime > 0)]

\* The heartbeat ticker of socket w fires.
HeartbeatTick(w) ==
  /\ microtasks = << >>
  /\ w \in intervals
  /\ sockets' = IF sockets[w].readyState = "OPEN"
                THEN [sockets EXCEPT ![w].lastSent = 1]
                ELSE sockets
  /\ UNCHANGED <<loopVars, tokVars, gwState, mainPc, savedSession, intervals, timers,
                 connPc, connectCalls, fatalClose, identifyLog, queueVars, refreshVars,
                 restOfGateway>>

\* The abort listener of startGateway.
Abort ==
  /\ microtasks = << >>
  /\ mainPc = "running"
  /\ ~isAborted
  /\ isAborted' = TRUE
  /\ mainPc' = "stopped"
  /\ timers' = IF reconnectTimer /= Null
               THEN [timers EXCEPT ![reconnectTimer] = IdleTimer] ELSE timers
  /\ reconnectTimer' = Null
  /\ Cleanup(sockets)
  /\ StopBackgroundTokenRefresh(microtasks)
  /\ UNCHANGED <<now, tokVars, reconnectAttempts, sessionVars, intentVars,
                 lastConnectTime, failedAttempts, quickDisconnectCount, isConnecting,
                 shouldRefreshToken, connPc, connectCalls, fatalClose, identifyLog, queueVars,
                 restOfGateway>>

\* ------------------------------------------------------------------------
\* src/gateway.ts: the gateway without queue, session store and background
\* refresh.  Its cleanup, scheduleReconnect and connect are the code modelled
\* above; its startGateway and socket handlers differ.
\* ------------------------------------------------------------------------
\* startGateway: register the handlers, call connect().
StreamStartGateway ==
  /\ mainPc = "start"
  /\ microtasks = << >>
  /\ mainPc' = "running"
  /\ Connect
  /\ UNCHANGED <<microtasks, scheduleVars, isAborted, lastConnectTime, failedAttempts,
                 quickDisconnectCount, sessionVars, intentVars, fatalClose, identifyLog,
                 queueVars, refreshVars, restOfGateway>>

\* ws.on("open")
StreamSocketOpen(w) ==
  /\ microtasks = << >>
  /\ sockets[w].readyState = "CONNECTING"
  /\ sockets' = [sockets EXCEPT ![w].readyState = "OPEN", ![w].opened = TRUE]
  /\ isConnecting' = FALSE
  /\ reconnectAttempts' = 0
  /\ lastConnectTime' = 1
  /\ failedAttempts' = 0
  /\ UNCHANGED <<loopVars, tokVars, mainPc, isAborted, currentWs,
                 heartbeatInterval, intervals, reconnectTimer, timers, sessionVars,
                 intentVars, quickDisconnectCount, shouldRefreshToken, connPc,
                 connectCalls, fatalClose, identifyLog, queueVars, refreshVars, restOfGateway>>

FreeHandler == CHOOSE h \in HandlerIds : streamHandlers[h] = NoMsg

\* case 0 (Dispatch): for a message event the handler calls handleMessage
\* and awaits it.
StreamOnDispatch(f) ==
  /\ sessionId' = IF f.t = "READY" THEN f.id ELSE sessionId
  /\ lastSuccessfulIntentLevel' =
       IF f.t = "READY" THEN intentLevelIndex ELSE lastSuccessfulIntentLevel
  /\ streamHandlers' =
       IF f.t \in MessageEventTypes
       THEN [streamHandlers EXCEPT ![FreeHandler] = f.id]
       ELSE streamHandlers
  /\ UNCHANGED <<savedSession, cleanupVars, intentLevelIndex, shouldRefreshToken,
                 scheduleVars, queueVars>>

\* ws.on("message") up to its return or its await of handleMessage.
StreamSocketFrame(w, f, throws) ==
  /\ microtasks = << >>
  /\ sockets[w].opened
  /\ sockets[w].readyState \in {"OPEN", "CLOSING"}
  /\ throws => (f.op = 10 /\ sockets[w].readyState /= "OPEN")
  /\ f.t \in MessageEventTypes => \E h \in HandlerIds : streamHandlers[h] = NoMsg
  /\ LET sq == IF f.s /= 0 THEN f.s ELSE lastSeq
     IN /\ lastSeq' = IF f.op = 9 /\ ~f.canResume THEN Null ELSE sq
        /\ identifyLog' = IdentifyLogged(w, f, sq)
        /\ CASE f.op = 10 -> OnHello(w, sq, savedSession, throws)
                               /\ UNCHANGED streamHandlers
             [] f.op = 0 -> StreamOnDispatch(f)
             [] f.op = 7 -> OnReconnect(savedSession) /\ UNCHANGED streamHandlers
             [] f.op = 9 -> /\ IF ~f.canResume
                               THEN /\ sessionId' = Null
                                    /\ IF intentLevelIndex < NumIntentLevels - 1
                                       THEN /\ intentLevelIndex' = intentLevelIndex + 1
                                            /\ UNCHANGED shouldRefreshToken
                                       ELSE /\ shouldRefreshToken' = TRUE
                                            /\ UNCHANGED intentLevelIndex
                               ELSE UNCHANGED <<sessionId, intentLevelIndex,
                                                shouldRefreshToken>>
                            /\ Cleanup(sockets)
                            /\ ScheduleReconnect(INVALID_SESSION_DELAY)
                            /\ UNCHANGED <<savedSession, lastSuccessfulIntentLevel,
                                           queueVars, streamHandlers>>
             [] OTHER -> UNCHANGED <<savedSession, cleanupVars, sessionId, intentVars,
                                     shouldRefreshToken, scheduleVars, queueVars,
                                     streamHandlers>>
  /\ UNCHANGED <<loopVars, tokVars, mainPc, isAborted, lastConnectTime, failedAttempts,
                 quickDisconnectCount, isConnecting, connPc, connectCalls,
                 fatalClose, refreshVars, restOfStream>>

\* handleMessage(event) settles: the handler invocation h resumes and returns
\* (an error of handleMessage ends in the catch of the handler).
StreamHandleDone(h) ==
  /\ microtasks = << >>
  /\ streamHandlers[h] /= NoMsg
  /\ streamHandlers' = [streamHandlers EXCEPT ![h] = NoMsg]
  /\ UNCHANGED <<loopVars, tokVars, gwState, mainPc, savedSession, sockets,
                 intervals, timers, connPc, connectCalls, fatalClose, identifyLog, queueVars,
                 refreshVars, restOfStream>>

\* ------------------------------------------------------------------------
\* C2C streaming of one reply session (src/gateway.ts handleMessage)
\* ------------------------------------------------------------------------
StreamState == [STREAMING |-> 1, END |-> 10]
NoReceived == [len |-> 0, broken |-> FALSE]
IdleChunk == [st |-> "idle", full |-> 0]

\* streamSender.send(text, isEnd) up to its REST call: a sender that has
\* ended returns an error without a REST call.
SenderCall == IF streamCtx.ended THEN "refused" ELSE "rest"
SenderLog(state) == IF streamCtx.ended THEN chunkLog ELSE Append(chunkLog, state)

\* The sender after its REST call: the next index, ended after an END chunk.
SenderReturn(ok, isEnd) ==
  IF ok THEN [index |-> streamCtx.index + 1, ended |-> isEnd] ELSE streamCtx

\* The text the receiver holds after the acknowledged increment
\* fullText.slice(from) of a text of length to.
Acknowledged(from, to) ==
  IF to > from
  THEN [len |-> received.len + (to - from),
        broken |-> received.broken \/ from /= received.len]
  ELSE received

\* lastSentLength after sendStreamChunk has returned in doStreamSend, with
\* the update made whatever sendStreamChunk returned
SentAfterAnyResult(ok) == chunkSend.full

\* lastSentLength after sendStreamChunk has returned in doStreamSend.
SentAfter(ok) == IF ok THEN chunkSend.full ELSE lastSentLength

\* finalFullText of the stream completion.
FinalFullText ==
  IF pendingFullText > 0 /\ pendingFullText > streamBuffer
  THEN pendingFullText ELSE streamBuffer

\* resetKeepalive: the timer is cleared, and set again while the stream has
\* started and not ended.
ResetKeepalive == streamStarted /\ ~streamEnded

\* handleMessage of a C2C event up to its await of the dispatch: the sender
\* is created and the response timeout set.
HandleMessage ==
  /\ handlePc = "idle"
  /\ handlePc' = "dispatch"
  /\ timeoutId' = TRUE
  /\ UNCHANGED <<streamBuffer, lastSentLength, streamStarted, streamEnded, sendingLock,
                 pendingFullText, keepaliveTimer, hasResponse, streamCtx, chunkSend,
                 keepaliveSend, errorPc, chunkLog, received, restOfChunks>>

\* doStreamSend(fullText, false) with the lock free, up to the await of the
\* sender in sendStreamChunk.
DoStreamSend(fullText) ==
  /\ sendingLock' = TRUE
  /\ chunkSend' = [st |-> SenderCall, full |-> fullText]
  /\ chunkLog' = SenderLog(StreamState.STREAMING)

\* onPartialReply: text is the accumulated reply; due: the chunk interval
\* has passed since the last chunk.
HandlePartialReply(text, due) ==
  /\ handlePc = "dispatch"
  /\ ~streamEnded
  /\ Len(chunkLog) < MaxChunks
  /\ streamBuffer' = text
  /\ hasResponse' = TRUE
  /\ IF text <= lastSentLength
     THEN UNCHANGED <<sendingLock, pendingFullText, chunkSend, chunkLog>>
     ELSE IF (~streamStarted \/ due) /\ ~sendingLock
     THEN DoStreamSend(text) /\ UNCHANGED pendingFullText
     ELSE /\ pendingFullText' = text
          /\ UNCHANGED <<sendingLock, chunkSend, chunkLog>>
  /\ UNCHANGED <<lastSentLength, streamStarted, streamEnded, keepaliveTimer, timeoutId,
                 streamCtx, keepaliveSend, errorPc, handlePc, received, restOfChunks>>

\* The sender returns to sendStreamChunk: doStreamSend goes on to its end,
\* and sends the stashed text as the next chunk.
ChunkDone(ok) ==
  /\ chunkSend.st /= "idle"
  /\ ok => chunkSend.st = "rest"
  /\ received' = IF ok THEN Acknowledged(lastSentLength, chunkSend.full) ELSE received
  /\ LET sent == SentAfter(ok)
         more == pendingFullText > 0 /\ pendingFullText > sent /\ ~streamEnded
     IN /\ more => Len(chunkLog) < MaxChunks
        /\ streamCtx' = SenderReturn(ok, FALSE)
        /\ keepaliveTimer' = IF ok THEN ResetKeepalive ELSE keepaliveTimer
        /\ lastSentLength' = sent
        /\ streamStarted' = (ok \/ streamStarted)
        /\ IF more
           THEN /\ pendingFullText' = 0
                /\ DoStreamSend(pendingFullText)
           ELSE /\ sendingLock' = FALSE
                /\ chunkSend' = IdleChunk
                /\ UNCHANGED <<pendingFullText, chunkLog>>
  /\ UNCHANGED <<streamBuffer, streamEnded, hasResponse, timeoutId, keepaliveSend,
                 errorPc, handlePc, restOfChunks>>

\* The keepalive timeout fires.
KeepaliveFire ==
  /\ keepaliveTimer
  /\ Len(chunkLog) < MaxChunks
  /\ keepaliveTimer' = FALSE
  /\ IF ~streamEnded /\ ~sendingLock
     THEN /\ sendingLock' = TRUE
          /\ keepaliveSend' = SenderCall
          /\ chunkLog' = SenderLog(StreamState.STREAMING)
     ELSE UNCHANGED <<sendingLock, keepaliveSend, chunkLog>>
  /\ UNCHANGED <<streamBuffer, lastSentLength, streamStarted, streamEnded,
                 pendingFullText, hasResponse, timeoutId, streamCtx, chunkSend,
                 errorPc, handlePc, received, restOfChunks>>

\* The sender returns to the keepalive callback, or throws.
KeepaliveDone(ok, throws) ==
  /\ keepaliveSend /= "idle"
  /\ ok => (keepaliveSend = "rest" /\ ~throws)
  /\ streamCtx' = SenderReturn(ok, FALSE)
  /\ keepaliveTimer' = IF throws THEN keepaliveTimer ELSE ResetKeepalive
  /\ sendingLock' = FALSE
  /\ keepaliveSend' = "idle"
  /\ UNCHANGED <<streamBuffer, lastSentLength, streamStarted, streamEnded,
                 pendingFullText, hasResponse, timeoutId, chunkSend, errorPc,
                 handlePc, chunkLog, received, restOfChunks>>

\* dispatcherOptions.deliver: the text of a C2C reply is not sent here.
Deliver(text) ==
  /\ handlePc = "dispatch"
  /\ hasResponse' = TRUE
  /\ timeoutId' = FALSE
  /\ streamBuffer' = IF text > streamBuffer THEN text ELSE streamBuffer
  /\ UNCHANGED <<lastSentLength, streamStarted, streamEnded, sendingLock,
                 pendingFullText, keepaliveTimer, streamCtx, chunkSend, keepaliveSend,
                 errorPc, handlePc, chunkLog, received, restOfChunks>>

\* dispatcherOptions.onError up to its first await: the wait for the lock,
\* streamSender.end, or sendErrorMessage.
OnError ==
  /\ handlePc = "dispatch"
  /\ errorPc = "idle"
  /\ hasResponse' = TRUE
  /\ timeoutId' = FALSE
  /\ keepaliveTimer' = FALSE
  /\ IF ~streamEnded /\ streamBuffer > 0
     THEN IF sendingLock
          THEN errorPc' = "wait" /\ UNCHANGED chunkLog
          ELSE errorPc' = SenderCall /\ chunkLog' = SenderLog(StreamState.END)
     ELSE errorPc' = "errmsg" /\ UNCHANGED chunkLog
  /\ UNCHANGED <<streamBuffer, lastSentLength, streamStarted, streamEnded, sendingLock,
                 pendingFullText, streamCtx, chunkSend, keepaliveSend, handlePc,
                 received, restOfChunks>>

\* onError finds the lock free after a wait of 50 ms and ends the stream.
ErrorPoll ==
  /\ errorPc = "wait"
  /\ ~sendingLock
  /\ errorPc' = SenderCall
  /\ chunkLog' = SenderLog(StreamState.END)
  /\ UNCHANGED <<streamBuffer, lastSentLength, streamStarted, streamEnded, sendingLock,
                 pendingFullText, keepaliveTimer, hasResponse, timeoutId, streamCtx,
                 chunkSend, keepaliveSend, handlePc, received, restOfChunks>>

\* streamSender.end returns to onError, or throws.
ErrorEndDone(ok, throws) ==
  /\ errorPc \in {"rest", "refused"}
  /\ ok => (errorPc = "rest" /\ ~throws)
  /\ streamCtx' = SenderReturn(ok, TRUE)
  /\ streamEnded' = IF throws THEN streamEnded ELSE TRUE
  /\ errorPc' = "errmsg"
  /\ received' = IF ok THEN Acknowledged(lastSentLength, streamBuffer) ELSE received
  /\ UNCHANGED <<streamBuffer, lastSentLength, streamStarted, sendingLock,
                 pendingFullText, keepaliveTimer, hasResponse, timeoutId, chunkSend,
                 keepaliveSend, handlePc, chunkLog, restOfChunks>>

\* sendErrorMessage of onError settles.
ErrorMessageDone ==
  /\ errorPc = "errmsg"
  /\ errorPc' = "done"
  /\ UNCHANGED <<streamBuffer, lastSentLength, streamStarted, streamEnded, sendingLock,
                 pendingFullText, keepaliveTimer, hasResponse, timeoutId, streamCtx,
                 chunkSend, keepaliveSend, handlePc, chunkLog, received, restOfChunks>>

\* The end of handleMessage once the lock is free: the END chunk with the
\* text not sent yet, when there is some or the stream has started.
StreamCompletion ==
  LET finalFullText == FinalFullText
  IN IF finalFullText > lastSentLength \/ streamStarted
     THEN handlePc' = SenderCall /\ chunkLog' = SenderLog(StreamState.END)
     ELSE handlePc' = "done" /\ UNCHANGED chunkLog

\* The dispatch settles (ok: it resolves) and handleMessage resumes.
DispatchDone(ok) ==
  /\ handlePc = "dispatch"
  /\ keepaliveTimer' = FALSE
  /\ IF ok
     THEN /\ IF streamEnded THEN handlePc' = "done" /\ UNCHANGED chunkLog
             ELSE IF sendingLock THEN handlePc' = "wait" /\ UNCHANGED chunkLog
             ELSE StreamCompletion
          /\ UNCHANGED timeoutId
     ELSE /\ handlePc' = "done"
          /\ timeoutId' = FALSE
          /\ UNCHANGED chunkLog
  /\ UNCHANGED <<streamBuffer, lastSentLength, streamStarted, streamEnded, sendingLock,
                 pendingFullText, hasResponse, streamCtx, chunkSend, keepaliveSend,
                 errorPc, received, restOfChunks>>

\* handleMessage finds the lock free after a wait of 50 ms.
HandlePoll ==
  /\ handlePc = "wait"
  /\ ~sendingLock
  /\ StreamCompletion
  /\ UNCHANGED <<streamBuffer, lastSentLength, streamStarted, streamEnded, sendingLock,
                 pendingFullText, keepaliveTimer, hasResponse, timeoutId, streamCtx,
                 chunkSend, keepaliveSend, errorPc, received, restOfChunks>>

\* streamSender.end returns to handleMessage, or throws into its catch.
HandleEndDone(ok, throws) ==
  /\ handlePc \in {"rest", "refused"}
  /\ ok => (handlePc = "rest" /\ ~throws)
  /\ streamCtx' = SenderReturn(ok, TRUE)
  /\ streamEnded' = IF throws THEN streamEnded ELSE TRUE
  /\ keepaliveTimer' = IF throws THEN FALSE ELSE keepaliveTimer
  /\ timeoutId' = IF throws THEN FALSE ELSE timeoutId
  /\ handlePc' = "done"
  /\ received' = IF ok THEN Acknowledged(lastSentLength, FinalFullText) ELSE received
  /\ UNCHANGED <<streamBuffer, lastSentLength, streamStarted, sendingLock,
                 pendingFullText, hasResponse, chunkSend, keepaliveSend, errorPc,
                 chunkLog, restOfChunks>>

\* The response timeout fires: without a response the race is lost and
\* handleMessage ends in its catch.
ResponseTimeout ==
  /\ timeoutId
  /\ timeoutId' = FALSE
  /\ IF ~hasResponse /\ handlePc = "dispatch"
     THEN handlePc' = "done" /\ keepaliveTimer' = FALSE
     ELSE UNCHANGED <<handlePc, keepaliveTimer>>
  /\ UNCHANGED <<streamBuffer, lastSentLength, streamStarted, streamEnded, sendingLock,
                 pendingFullText, hasResponse, streamCtx, chunkSend, keepaliveSend,
                 errorPc, chunkLog, received, restOfChunks>>

\* ------------------------------------------------------------------------
\* Account configuration and message bodies (config.ts, api.ts)
\* ------------------------------------------------------------------------
DEFAULT_ACCOUNT_ID == "default"
AccountIds == {DEFAULT_ACCOUNT_ID, "named"}
\* markdownSupport of an account in the configuration: a boolean, or absent
MarkdownSettings == {"unset", "true", "false"}
NoBody == [account |-> "none", msg_type |-> 0, markdown |-> FALSE, content |-> FALSE,
           msg_seq |-> 0, msg_id |-> NoMsg]

\* resolveQQBotAccount(cfg, accountId).markdownSupport: the default account
\* reads the top level with "?? true", a named account its own entry.
ResolveMarkdownSupport(accountId, setting) ==
  IF accountId = DEFAULT_ACCOUNT_ID
  THEN (IF setting = "unset" THEN "true" ELSE setting)
  ELSE setting

\* initApiConfig: options.markdownSupport === true
InitApiConfig(markdownSupport) == markdownSupport = "true"

\* buildMessageBody: markdown and content tell which field carries the text.
BuildMessageBody(msgId, msgSeq) ==
  IF currentMarkdownSupport
  THEN [msg_type |-> 2, markdown |-> TRUE, content |-> FALSE, msg_seq |-> msgSeq,
        msg_id |-> msgId]
  ELSE [msg_type |-> 0, markdown |-> FALSE, content |-> TRUE, msg_seq |-> msgSeq,
        msg_id |-> msgId]

\* startGateway of an account up to initApiConfig.
AccountStart(a) ==
  /\ a \notin startedAccounts
  /\ startedAccounts' = startedAccounts \cup {a}
  /\ currentMarkdownSupport' =
       InitApiConfig(ResolveMarkdownSupport(a, channelConfig[a]))
  /\ UNCHANGED <<channelConfig, lastBody, restOfApi>>

\* A text message of a started account is built (sendC2CMessage,
\* sendGroupMessage).
AccountSend(a, msgId, msgSeq) ==
  /\ a \in startedAccounts
  /\ lastBody' = [account |-> a, msg_type |-> BuildMessageBody(msgId, msgSeq).msg_type,
                  markdown |-> BuildMessageBody(msgId, msgSeq).markdown,
                  content |-> BuildMessageBody(msgId, msgSeq).content,
                  msg_seq |-> msgSeq, msg_id |-> msgId]
  /\ UNCHANGED <<channelConfig, startedAccounts, currentMarkdownSupport, restOfApi>>

\* ------------------------------------------------------------------------
\* deliver callback, plain-text mode (gateway.ts with the queue)
\* ------------------------------------------------------------------------
\* A reply text is a caption followed by one markdown image literal
\* ![](path) with an absolute local path.  A caption is known by the number
\* of its characters that are neither white space nor punctuation (words)
\* and by whether it holds a dot between two letters or digits (dotted);
\* it has no numbered list and matches no REDUNDANT_TEXT_PATTERNS.  A path is
\* known by the number of its characters outside the punctuation class:
\* "/tmp/a.png" has 9, "/home/user/pictures/chart.png" has 28.
MaxCaptionWords == 25
ShortPathChars == 9
LongPathChars == 28
Captions == [words : {0, 3, MaxCaptionWords}, dotted : {FALSE}]
              \cup [words : {3, MaxCaptionWords}, dotted : {TRUE}]
PathChars == {ShortPathChars, LongPathChars}
EventTypes == {"c2c", "group", "channel"}
NoReply == [type |-> "none", caption |-> [words |-> 0, dotted |-> FALSE],
            path |-> 0, exists |-> FALSE]
\* isEntirelyRedundantExplanation: cleanedWords.length > 20
SIGNIFICANT_CONTENT == 20
SendOutcomes == {"ok", "error", "token"}

\* isEntirelyRedundantExplanation of caption and literal: nothing is removed
\* by the patterns, the literal keeps the path's characters.
IsEntirelyRedundantExplanation(caption, path) ==
  ~(caption.words + path > SIGNIFICANT_CONTENT)

\* simplifyTextForImageSend: "canned" is the fixed text that replaces a
\* redundant explanation, "reply" the trimmed reply text.
SimplifyTextForImageSend(caption, path, hasImages) ==
  IF ~hasImages THEN "reply"
  ELSE IF IsEntirelyRedundantExplanation(caption, path) THEN "canned"
  ELSE "reply"

\* Plain-text mode: the image literal is removed, the rest is trimmed, then
\* a dot between letters or digits becomes "_" and a notice is appended.
PlainText(simplified, caption) ==
  IF simplified = "canned" THEN "canned"
  ELSE IF caption.words = 0 THEN "empty"
  ELSE IF caption.dotted THEN "caption_notice"
  ELSE "caption"

ApiCall(kind, msgType, content, outcome) ==
  [kind |-> kind, msg_type |-> msgType, content |-> content, ok |-> outcome = "ok"]

\* After the loop over imageUrls: the text is sent when it is not blank.
AfterImages(text) == IF text = "empty" THEN "done" ELSE "text"

\* deliver up to the first await: images are collected (a local file is read
\* when it exists), the text is simplified and stripped.
Deliver_Plain(type, caption, path, exists) ==
  /\ deliverPc = "idle"
  /\ dlvReply' = [type |-> type, caption |-> caption, path |-> path, exists |-> exists]
  /\ imageUrls' = IF exists THEN 1 ELSE 0
  /\ textWithoutImages' = PlainText(SimplifyTextForImageSend(caption, path, exists), caption)
  /\ dlvRetried' = FALSE
  /\ apiCalls' = << >>
  /\ deliverPc' = IF exists THEN "image" ELSE AfterImages(textWithoutImages')
  /\ UNCHANGED restOfDeliver

\* sendWithTokenRetry around one send: a token error is retried once, any
\* other error, or an error of the retry, is thrown.
RetryOrGo(outcome, okPc, againPc, thrownPc) ==
  LET sameSend == okPc = "media" IN
  /\ deliverPc' = IF outcome = "ok" THEN okPc
                  ELSE IF outcome = "token" /\ ~dlvRetried THEN againPc
                  ELSE thrownPc
  /\ dlvRetried' = IF outcome = "ok" THEN (sameSend /\ dlvRetried)
                   ELSE IF outcome = "token" /\ ~dlvRetried THEN TRUE
                   ELSE FALSE

\* sendC2CImageMessage / sendGroupImageMessage: the upload; a channel gets
\* the image as a text message.
ImageUpload(outcome) ==
  /\ deliverPc = "image"
  /\ IF dlvReply.type = "channel"
     THEN /\ apiCalls' = Append(apiCalls,
                ApiCall("text", BuildMessageBody(1, 1).msg_type, "image_url", outcome))
          /\ RetryOrGo(outcome, AfterImages(textWithoutImages), "image",
                       AfterImages(textWithoutImages))
     ELSE /\ apiCalls' = Append(apiCalls, ApiCall("upload", 0, "file_data", outcome))
          /\ RetryOrGo(outcome, "media", "image", AfterImages(textWithoutImages))
  /\ UNCHANGED <<dlvReply, imageUrls, textWithoutImages, restOfDeliver>>

\* sendC2CMediaMessage: msg_type 7 with the uploaded file_info.
MediaSend(outcome) ==
  /\ deliverPc = "media"
  /\ apiCalls' = Append(apiCalls, ApiCall("media", 7, "file_info", outcome))
  /\ RetryOrGo(outcome, AfterImages(textWithoutImages), "image",
               AfterImages(textWithoutImages))
  /\ UNCHANGED <<dlvReply, imageUrls, textWithoutImages, restOfDeliver>>

\* The text message after the images.
TextSend(outcome) ==
  /\ deliverPc = "text"
  /\ apiCalls' = Append(apiCalls,
        ApiCall("text", BuildMessageBody(1, 1).msg_type, textWithoutImages, outcome))
  /\ RetryOrGo(outcome, "done", "text", "done")
  /\ UNCHANGED <<dlvReply, imageUrls, textWithoutImages, restOfDeliver>>

\* The callback has returned; the next block of the reply may be delivered.
DeliverReturn ==
  /\ deliverPc = "done"
  /\ deliverPc' = "idle"
  /\ UNCHANGED <<dlvReply, imageUrls, textWithoutImages, dlvRetried, apiCalls,
                 restOfDeliver>>

\* ------------------------------------------------------------------------
\* Initial states
\* ------------------------------------------------------------------------
LoopInit ==
  /\ now = 0
  /\ microtasks = << >>

TokInit ==
  /\ cachedToken = NullCached
  /\ tokenFetchPromise = NoFetch
  /\ fetches = [f \in FetchIds |-> IdleFetch]

ClientInit ==
  /\ clientPc = [c \in ClientIds |-> "idle"]
  /\ clientRes = [c \in ClientIds |-> NoResult]
  /\ clearPending = "none"

SeqInit ==
  /\ msgSeqTracker = << >>
  /\ seqBaseTime \in SeqBases
  /\ seqReturned = [m \in MsgIds |-> << >>]

\* No account is configured with markdownSupport and none has started.
ApiIdle ==
  /\ channelConfig = [a \in AccountIds |-> "unset"]
  /\ startedAccounts = {}
  /\ currentMarkdownSupport = FALSE
  /\ lastBody = NoBody

DeliverIdle ==
  /\ deliverPc = "idle"
  /\ dlvReply = NoReply
  /\ imageUrls = 0
  /\ textWithoutImages = "none"
  /\ dlvRetried = FALSE
  /\ apiCalls = << >>

ExtIdle ==
  /\ ApiIdle /\ DeliverIdle
  /\ eventLog = NoEvent
  /\ handleState = NoHandling
  /\ seqServed = << >>

ChunkInit ==
  /\ received = NoReceived
  /\ streamBuffer = 0
  /\ lastSentLength = 0
  /\ streamStarted = FALSE
  /\ streamEnded = FALSE
  /\ sendingLock = FALSE
  /\ pendingFullText = 0
  /\ keepaliveTimer = FALSE
  /\ hasResponse = FALSE
  /\ timeoutId = FALSE
  /\ streamCtx = [index |-> 0, ended |-> FALSE]
  /\ chunkSend = IdleChunk
  /\ keepaliveSend = "idle"
  /\ errorPc = "idle"
  /\ handlePc = "idle"
  /\ chunkLog = << >>

GwInit ==
  /\ mainPc = "start"
  /\ reconnectAttempts = 0
  /\ isAborted = FALSE
  /\ currentWs = Null
  /\ heartbeatInterval = Null
  /\ sessionId = Null
  /\ lastSeq = Null
  /\ lastConnectTime = 0
  /\ failedAttempts = 0
  /\ quickDisconnectCount = 0
  /\ isConnecting = FALSE
  /\ reconnectTimer = Null
  /\ shouldRefreshToken = FALSE
  /\ intentLevelIndex = 0
  /\ lastSuccessfulIntentLevel = -1
  /\ savedSession \in SavedSessions
  /\ sockets = [w \in SocketIds |-> NoSocket]
  /\ intervals = {}
  /\ timers = [t \in TimerIds |-> IdleTimer]
  /\ connPc = [k \in ConnIds |-> "idle"]
  /\ connectCalls = 0
  /\ fatalClose = FALSE
  /\ identifyLog = NoIdentify
  /\ messageQueue = << >>
  /\ messageProcessorRunning = FALSE
  /\ workerPc = "off"
  /\ enqueueLog = NoEnqueue
  /\ handleLog = NoHandle
  /\ backgroundRefreshRunning = FALSE
  /\ refreshPc = [r \in RefreshIds |-> "off"]
  /\ refreshAborted = [r \in RefreshIds |-> FALSE]
  /\ backgroundRefreshAbortController = Null
  /\ streamHandlers = [h \in HandlerIds |-> NoMsg]

\* The gateway is not started.
GwIdle == GwInit /\ savedSession = NoSession

LimInit ==
  /\ messageReplyTracker = [m \in MsgIds |-> NoRecord]
  /\ sendPc = [s \in SenderIds |-> "idle"]
  /\ sendCtx = [s \in SenderIds |-> NoCtx]
  /\ sendResult = "none"
  /\ sendCalls = 0
  /\ sendLast = NoSend
  /\ passiveIssued = [m \in MsgIds |-> 0]
  /\ passiveOk = [m \in MsgIds |-> [first |-> 0, n |-> 0]]

\* ------------------------------------------------------------------------
\* Specifications
\* ------------------------------------------------------------------------
\* The token store under arbitrary callers.
InitToken ==
  LoopInit /\ TokInit /\ ClientInit /\ SeqInit /\ LimInit /\ ChunkInit /\ ExtIdle /\ GwIdle /\ seqBaseTime = 0
NextToken ==
  \/ \E c \in ClientIds, app \in Apps : ClientCall(c, app)
  \/ ClientClear
  \/ ClientResume
  \/ \E f \in FetchIds, ver \in TokenVers, e \in ExpiresInChoices : FetchOk(f, ver, e)
  \/ \E f \in FetchIds, rate \in BOOLEAN : FetchFail(f, rate)
  \/ Tick(7)
SpecToken == InitToken /\ [][NextToken]_vars

\* Two accounts in one process: every task calls getAccessToken with the
\* credentials of its own account.
AccountOf(c) == ((c - 1) % Cardinality(Apps)) + 1
NextAccounts ==
  \/ \E c \in ClientIds : ClientCall(c, AccountOf(c))
  \/ ClientClear
  \/ ClientResume
  \/ \E f \in FetchIds, ver \in TokenVers, e \in ExpiresInChoices : FetchOk(f, ver, e)
  \/ \E f \in FetchIds, rate \in BOOLEAN : FetchFail(f, rate)
  \/ Tick(7)
SpecAccounts == InitToken /\ [][NextAccounts]_vars

\* The msg_seq counter under arbitrary replies.
InitSeq == LoopInit /\ TokInit /\ ClientInit /\ SeqInit /\ LimInit /\ ChunkInit /\ ExtIdle /\ GwIdle
NextSeq == \E m \in MsgIds : SeqCall(m)
SpecSeq == InitSeq /\ [][NextSeq]_vars
NextSeqServed == \E m \in MsgIds : SeqCallServed(m)
SpecSeqServed == InitSeq /\ [][NextSeqServed]_vars

\* sendText calls of one account, replying to an inbound message.
LimMsgIds == {1}
InitLimiter ==
  LoopInit /\ TokInit /\ ClientInit /\ SeqInit /\ LimInit /\ ChunkInit /\ ExtIdle /\ GwIdle /\ seqBaseTime = 0
NextLimiter ==
  \/ \E s \in SenderIds, to \in Targets, text \in Texts,
        reply \in LimMsgIds \cup {NoMsg}, configured \in BOOLEAN :
       SendText(s, to, text, reply, configured)
  \/ SendTokenResume
  \/ \E s \in SenderIds, ok \in BOOLEAN : SendRestDone(s, ok)
  \/ \E f \in FetchIds : FetchOk(f, 1, 0)
  \/ \E f \in FetchIds : FetchFail(f, FALSE)
  \/ Tick(7)
SpecLimiter == InitLimiter /\ [][NextLimiter]_vars

\* Text and media replies to one message, sent through sendText and
\* sendMedia.
NextMedia ==
  \/ SendText(1, "c2c", "hi", 1, TRUE)
  \/ SendTokenResume
  \/ \E ok \in BOOLEAN : SendRestDone(1, ok)
  \/ \E s \in SenderIds, to \in {"c2c", "channel"}, text \in {"", "hi"},
        valid \in BOOLEAN :
       SendMedia(s, to, text, 1, valid)
  \/ \E s \in SenderIds, ok \in BOOLEAN : MediaRestDone(s, ok)
  \/ \E s \in SenderIds, ok \in BOOLEAN : MediaCaptionDone(s, ok)
  \/ \E f \in FetchIds : FetchOk(f, 1, 0)
  \/ Tick(7)
SpecMedia == InitLimiter /\ [][NextMedia]_vars

\* The gateway of one account: connection life cycle, reconnects, abort,
\* with a dispatch frame that only advances lastSeq.  The sessions (READY,
\* RESUMED) are varied in SpecSession, message events and the pipeline are
\* left to SpecQueue.
ReconnectFrames == {Frame(0, "READY", 1, 1, FALSE), Frame(0, "OTHER", 1, 0, FALSE)}
\* A dispatch frame that is neither READY, RESUMED nor a message event.
PlainFrames == {Frame(0, "OTHER", 1, 0, FALSE)}
Init ==
  LoopInit /\ TokInit /\ ClientInit /\ SeqInit /\ LimInit /\ ChunkInit /\ ExtIdle /\ GwInit /\ seqBaseTime = 0
Next ==
  \/ StartGateway
  \/ Abort
  \/ \E t \in TimerIds : TimerFire(t)
  \/ ConnTokenResume
  \/ \E k \in ConnIds : ConnUrlOk(k)
  \/ \E k \in ConnIds, rate \in BOOLEAN : ConnUrlFail(k, rate)
  \/ \E w \in SocketIds : SocketOpen(w)
  \/ \E w \in SocketIds, f \in ControlFrames \cup PlainFrames, throws \in BOOLEAN :
       SocketFrame(w, f, throws)
  \/ \E w \in SocketIds, code \in CloseCodes, quick \in BOOLEAN :
       SocketClose(w, code, quick)
  \/ \E w \in SocketIds : HeartbeatTick(w)
  \/ \E f \in FetchIds : FetchOk(f, 1, 0)
  \/ \E f \in FetchIds, rate \in BOOLEAN : FetchFail(f, rate)
  \/ RefreshResume
  \/ \E r \in RefreshIds : RefreshWake(r)
  \/ WorkerWake
Spec == Init /\ [][Next]_vars

\* The gateway over any sessions and sequence numbers, where connects
\* succeed, sockets fail or close with an internal error, and nobody aborts.
NextSession ==
  \/ StartGateway
  \/ \E t \in TimerIds : TimerFire(t)
  \/ ConnTokenResume
  \/ \E k \in ConnIds : ConnUrlOk(k)
  \/ \E w \in SocketIds : SocketOpen(w)
  \/ \E w \in SocketIds, f \in ControlFrames \cup SessionFrames, throws \in BOOLEAN :
       SocketFrame(w, f, throws)
  \/ \E w \in SocketIds, code \in {1006, 4900} : SocketClose(w, code, FALSE)
  \/ \E w \in SocketIds : HeartbeatTick(w)
  \/ \E f \in FetchIds : FetchOk(f, 1, 0)
SpecSession == Init /\ [][NextSession]_vars

\* The gateway of one account on its first connection: message events
\* arrive while the worker sleeps, handles a message or has stopped.
NextQueue ==
  \/ StartGateway
  \/ Abort
  \/ ConnTokenResume
  \/ \E k \in ConnIds : ConnUrlOk(k)
  \/ \E w \in SocketIds : SocketOpen(w)
  \/ \E w \in SocketIds, f \in MessageFrames : SocketFrame(w, f, FALSE)
  \/ \E f \in FetchIds : FetchOk(f, 1, 0)
  \/ RefreshResume
  \/ WorkerWake
  \/ WorkerDone
SpecQueue == Init /\ [][NextQueue]_vars

\* src/gateway.ts on its first connection, with any frames of the server.
InitStream ==
  LoopInit /\ TokInit /\ ClientInit /\ SeqInit /\ LimInit /\ ChunkInit /\ ExtIdle /\ GwIdle /\ seqBaseTime = 0
NextStream ==
  \/ StreamStartGateway
  \/ ConnTokenResume
  \/ \E k \in ConnIds : ConnUrlOk(k)
  \/ \E w \in SocketIds : StreamSocketOpen(w)
  \/ \E w \in SocketIds, f \in ControlFrames \cup ReconnectFrames \cup MessageFrames,
        throws \in BOOLEAN :
       StreamSocketFrame(w, f, throws)
  \/ \E h \in HandlerIds : StreamHandleDone(h)
  \/ \E w \in SocketIds : HeartbeatTick(w)
  \/ \E f \in FetchIds : FetchOk(f, 1, 0)
SpecStream == InitStream /\ [][NextStream]_vars

\* The gateway through three connect() calls, where every connect succeeds,
\* the server asks for reconnects and sockets close abnormally, their close
\* events arriving at any time.
TimerFireLock(t) == TimerFireWithin(t, MaxLockCalls)
NextLock ==
  \/ StartGateway
  \/ \E t \in TimerIds : TimerFireLock(t)
  \/ ConnTokenResume
  \/ \E k \in ConnIds : ConnUrlOk(k)
  \/ \E w \in SocketIds : SocketOpen(w)
  \/ \E w \in SocketIds : SocketFrame(w, Frame(7, "", 0, 0, FALSE), FALSE)
  \/ \E w \in SocketIds : SocketClose(w, 1006, FALSE)
  \/ \E f \in FetchIds : FetchOk(f, 1, 0)
SpecLock == Init /\ [][NextLock]_vars

\* The gateway through three connect() calls, where every connect succeeds
\* and the server answers Hello, READY or Invalid Session (not resumable).
IntentFrames ==
  {Frame(10, "", 0, 0, FALSE), Frame(9, "", 0, 0, FALSE), Frame(0, "READY", 1, 1, FALSE)}
NextIntents ==
  \/ StartGateway
  \/ \E t \in TimerIds : TimerFireLock(t)
  \/ ConnTokenResume
  \/ \E k \in ConnIds : ConnUrlOk(k)
  \/ \E w \in SocketIds : SocketOpen(w)
  \/ \E w \in SocketIds, f \in IntentFrames : SocketFrame(w, f, FALSE)
  \/ \E w \in SocketIds : SocketClose(w, 1006, FALSE)
  \/ \E f \in FetchIds : FetchOk(f, 1, 0)
SpecIntents == Init /\ [][NextIntents]_vars

\* One C2C reply session of src/gateway.ts: partial replies, keepalives,
\* deliver, onError, the end of the dispatch and the response timeout in
\* any order, every send of the stream sender succeeding or failing.
NextChunks ==
  \/ HandleMessage
  \/ \E text \in 1..MaxText, due \in BOOLEAN : HandlePartialReply(text, due)
  \/ \E ok \in BOOLEAN : ChunkDone(ok)
  \/ KeepaliveFire
  \/ \E ok, throws \in BOOLEAN : KeepaliveDone(ok, throws)
  \/ \E text \in 0..MaxText : Deliver(text)
  \/ OnError
  \/ ErrorPoll
  \/ \E ok, throws \in BOOLEAN : ErrorEndDone(ok, throws)
  \/ ErrorMessageDone
  \/ \E ok \in BOOLEAN : DispatchDone(ok)
  \/ HandlePoll
  \/ \E ok, throws \in BOOLEAN : HandleEndDone(ok, throws)
  \/ ResponseTimeout
SpecChunks == InitStream /\ [][NextChunks]_vars

\* One C2C reply session whose pipeline completes without calling onError;
\* the accumulated text of the partial replies only grows.
MaxGrow == 3           \* length of the accumulated text of SpecChunkText
PartialReplyGrows(text, due) ==
  /\ text >= streamBuffer
  /\ HandlePartialReply(text, due)
NextChunkText ==
  \/ HandleMessage
  \/ \E text \in 1..MaxGrow, due \in BOOLEAN : PartialReplyGrows(text, due)
  \/ \E ok \in BOOLEAN : ChunkDone(ok)
  \/ KeepaliveFire
  \/ \E ok, throws \in BOOLEAN : KeepaliveDone(ok, throws)
  \/ \E ok \in BOOLEAN : DispatchDone(ok)
  \/ HandlePoll
  \/ \E ok, throws \in BOOLEAN : HandleEndDone(ok, throws)
  \/ ResponseTimeout
SpecChunkText == InitStream /\ [][NextChunkText]_vars

\* The accounts of one process under every configuration of markdownSupport,
\* started in any order, sending text messages.
InitAccountsApi ==
  /\ LoopInit /\ TokInit /\ ClientInit /\ SeqInit /\ LimInit /\ ChunkInit /\ GwIdle
  /\ seqBaseTime = 0
  /\ channelConfig \in [AccountIds -> MarkdownSettings]
  /\ startedAccounts = {}
  /\ currentMarkdownSupport = FALSE
  /\ lastBody = NoBody
  /\ DeliverIdle
  /\ eventLog = NoEvent
  /\ handleState = NoHandling
  /\ seqServed = << >>
NextAccountsApi ==
  \/ \E a \in AccountIds : AccountStart(a)
  \/ \E a \in AccountIds, msgId \in {NoMsg, 1}, msgSeq \in 1..2 : AccountSend(a, msgId, msgSeq)
SpecAccountsApi == InitAccountsApi /\ [][NextAccountsApi]_vars

\* The gateway through three connect() calls, with or without a restored
\* session, where every connect succeeds and the server answers Hello or
\* Invalid Session of either kind; sockets close abnormally, their close
\* events arriving at any time.
InvalidFrames ==
  {Frame(10, "", 0, 0, FALSE), Frame(9, "", 0, 0, FALSE), Frame(9, "", 0, 0, TRUE)}
NextInvalid ==
  \/ StartGateway
  \/ \E t \in TimerIds : TimerFireLock(t)
  \/ ConnTokenResume
  \/ \E k \in ConnIds : ConnUrlOk(k)
  \/ \E w \in SocketIds : SocketOpen(w)
  \/ \E w \in SocketIds, f \in InvalidFrames : SocketFrameLogged(w, f)
  \/ \E w \in SocketIds : SocketCloseLogged(w, 1006, FALSE)
  \/ \E f \in FetchIds : FetchOk(f, 1, 0)
SpecInvalid == Init /\ [][NextInvalid]_vars

\* The gateway through two connect() calls, where every connect succeeds
\* and the server answers Hello, READY or Invalid Session (not resumable).
NextReady ==
  \/ StartGateway
  \/ \E t \in TimerIds : TimerFire(t)
  \/ ConnTokenResume
  \/ \E k \in ConnIds : ConnUrlOk(k)
  \/ \E w \in SocketIds : SocketOpen(w)
  \/ \E w \in SocketIds, f \in IntentFrames : SocketFrameLogged(w, f)
  \/ \E w \in SocketIds : SocketClose(w, 1006, FALSE)
  \/ \E f \in FetchIds : FetchOk(f, 1, 0)
SpecReady == Init /\ [][NextReady]_vars

\* The gateway through three connect() calls, with or without a restored
\* session, where every connect succeeds and the server answers Hello;
\* sockets close abnormally, with code 4009 or with an internal error, soon
\* or long after the last open.
ClosingCodes == {1006, 4009, 4900}
NextClose ==
  \/ StartGateway
  \/ \E t \in TimerIds : TimerFireLock(t)
  \/ ConnTokenResume
  \/ \E k \in ConnIds : ConnUrlOk(k)
  \/ \E w \in SocketIds : SocketOpenLogged(w)
  \/ \E w \in SocketIds : SocketFrameLogged(w, Frame(10, "", 0, 0, FALSE))
  \/ \E w \in SocketIds, code \in ClosingCodes, quick \in BOOLEAN :
       SocketCloseTimed(w, code, quick)
  \/ \E f \in FetchIds : FetchOk(f, 1, 0)
SpecClose == Init /\ [][NextClose]_vars

\* ---- handleMessage of the queue gateway: watchdog and error messages ----

MaxDelivers == 2       \* deliver / onError invocations of one pipeline call
MaxHandled == 3        \* message events of a run of SpecHandle

\* The QueuedMessage the frame handler builds for a message event
\* (message ids stand for the events: 1 c2c, 2 guild, 3 dm, 4 group).
EventType(m) ==
  LET t == MessageEvents[((m - 1) % 4) + 1]
  IN IF t = "C2C_MESSAGE_CREATE" THEN "c2c"
     ELSE IF t = "AT_MESSAGE_CREATE" THEN "guild"
     ELSE IF t = "DIRECT_MESSAGE_CREATE" THEN "dm"
     ELSE "group"
HasGroupOpenid(m) == EventType(m) = "group"
HasChannelId(m) == EventType(m) = "guild"

\* The target the event came from.
OriginOf(m) ==
  IF EventType(m) = "c2c" THEN "c2c"
  ELSE IF EventType(m) = "group" THEN "group"
  ELSE IF EventType(m) = "guild" THEN "channel"
  ELSE "dm"

\* The REST call the if-chain of sendErrorMessage (and of deliver) reaches,
\* "none" when no branch applies.
SendTarget(m) ==
  IF EventType(m) = "c2c" THEN "c2c"
  ELSE IF EventType(m) = "group" /\ HasGroupOpenid(m) THEN "group"
  ELSE IF HasChannelId(m) THEN "channel"
  ELSE "none"

\* sendErrorMessage(errorText) up to its REST call; text is the kind of line.
SendErrorMessage(h, text) ==
  IF SendTarget(h.event) = "none" THEN h
  ELSE [h EXCEPT !.calls.to = SendTarget(h.event),
                 !.calls.retried = FALSE,
                 !.calls.timeout = IF text = "timeout" THEN @ + 1 ELSE @,
                 !.calls.error = IF text = "error" THEN @ + 1 ELSE @]

restOfHandle == <<loopVars, tokVars, gwState, gwEnv, refreshVars, clientVars,
                  seqVars, seqReturned, limVars, chunkVars, apiVars, dlvVars, eventLog,
                  seqServed>>

\* handleMessage(event) from its first line to the await of Promise.race;
\* throws: the body of the outer try throws before the race.
HandleMessageStart(throws) ==
  /\ microtasks = << >>
  /\ workerPc = "handle"
  /\ handleState.pc = "idle"
  /\ handleLog.inProgress = 1
  /\ LET h == [NoHandling EXCEPT !.event = handleLog.last]
     IN handleState' =
          IF throws
          THEN [SendErrorMessage(h, "error") EXCEPT !.pc = "errsend", !.outcome = "error"]
          ELSE [h EXCEPT !.pc = "race", !.timeoutId = TRUE, !.dispatchPromise = "pending"]
  /\ UNCHANGED <<queueVars, restOfHandle>>

\* The pipeline calls dispatcherOptions.deliver.
PipelineDeliver ==
  /\ microtasks = << >>
  /\ handleState.pc \in {"race", "errsend"}
  /\ handleState.dispatchPromise = "pending"
  /\ handleState.calls.reply < MaxDelivers
  /\ handleState' =
       [handleState EXCEPT !.hasResponse = TRUE, !.timeoutId = FALSE,
                           !.calls.reply = IF SendTarget(handleState.event) = "none"
                                           THEN @ ELSE @ + 1]
  /\ UNCHANGED <<queueVars, restOfHandle>>

\* The pipeline calls dispatcherOptions.onError.
PipelineOnError ==
  /\ microtasks = << >>
  /\ handleState.pc \in {"race", "errsend"}
  /\ handleState.dispatchPromise = "pending"
  /\ handleState.calls.error < MaxDelivers
  /\ handleState' =
       [SendErrorMessage(handleState, "error")
          EXCEPT !.hasResponse = TRUE, !.timeoutId = FALSE,
                 !.outcome = IF @ = "none" THEN "error" ELSE @]
  /\ UNCHANGED <<queueVars, restOfHandle>>

\* The catch block around Promise.race.
RaceCaught(h, outcome) ==
  IF h.hasResponse
  THEN [h EXCEPT !.pc = "returned", !.timeoutId = FALSE]
  ELSE [SendErrorMessage(h, "timeout")
          EXCEPT !.pc = "errsend", !.timeoutId = FALSE, !.outcome = outcome]

\* dispatchPromise settles.
PipelineSettle(ok) ==
  /\ microtasks = << >>
  /\ handleState.dispatchPromise = "pending"
  /\ LET h == [handleState EXCEPT !.dispatchPromise =
                                   IF ok THEN "fulfilled" ELSE "rejected"]
     IN handleState' =
          IF handleState.pc /= "race" THEN h
          ELSE IF ok THEN [h EXCEPT !.pc = "returned"]
          ELSE RaceCaught(h, "error")
  /\ UNCHANGED <<queueVars, restOfHandle>>

\* The callback of the watchdog timer runs after responseTimeout.
WatchdogFire ==
  /\ microtasks = << >>
  /\ handleState.timeoutId
  /\ handleState' =
       IF handleState.hasResponse \/ handleState.pc /= "race"
       THEN [handleState EXCEPT !.timeoutId = FALSE]
       ELSE RaceCaught(handleState, "timeout")
  /\ UNCHANGED <<queueVars, restOfHandle>>

\* The REST call of sendErrorMessage settles; on a token error
\* sendWithTokenRetry calls sendFn once more.
ErrorSendSettle(outcome) ==
  /\ microtasks = << >>
  /\ handleState.pc = "errsend"
  /\ handleState' =
       IF outcome = "token" /\ ~handleState.calls.retried
          /\ handleState.calls.to /= "none"
       THEN [handleState EXCEPT !.calls.retried = TRUE]
       ELSE [handleState EXCEPT !.pc = "returned"]
  /\ UNCHANGED <<queueVars, restOfHandle>>

\* handleMessage returns; processLoop continues after its await.
HandleMessageReturn ==
  /\ microtasks = << >>
  /\ workerPc = "handle"
  /\ handleState.pc = "returned"
  /\ handleState' = NoHandling
  /\ ProcessLoop([handleLog EXCEPT !.inProgress = @ - 1, !.failed = FALSE])
  /\ UNCHANGED restOfHandle


\* The queue worker across reconnects: message events arrive, sockets close
\* and are reopened, handleMessage settles or throws, the gateway may be
\* aborted.
WorkerFrames == {Frame(0, MessageEvents[m], 1, m, FALSE) : m \in 1..2}
NextWorker ==
  \/ StartGateway
  \/ Abort
  \/ \E t \in TimerIds : TimerFire(t)
  \/ ConnTokenResume
  \/ \E k \in ConnIds : ConnUrlOk(k)
  \/ \E w \in SocketIds : SocketOpen(w)
  \/ \E w \in SocketIds, f \in WorkerFrames : SocketFrame(w, f, FALSE)
  \/ \E w \in SocketIds : SocketClose(w, 1006, FALSE)
  \/ \E f \in FetchIds : FetchOk(f, 1, 0)
  \/ RefreshResume
  \/ WorkerWake
  \/ WorkerDone
  \/ WorkerFailed
SpecWorker == Init /\ [][NextWorker]_vars

\* The queue worker with handleMessage in detail: message events of the four
\* kinds arrive on the first connection, the pipeline calls deliver or
\* onError, settles or hangs, the watchdog fires, the gateway may be aborted.
HandleFrames == {Frame(0, MessageEvents[m], 1, m, FALSE) : m \in 1..4}
MessageEventArrives(w, f) ==
  /\ enqueueLog.calls < MaxHandled
  /\ SocketFrame(w, f, FALSE)
HandleSteps ==
  \/ WorkerWake
  \/ \E throws \in BOOLEAN : HandleMessageStart(throws)
  \/ WatchdogFire
  \/ \E outcome \in SendOutcomes : ErrorSendSettle(outcome)
  \/ HandleMessageReturn
NextHandle ==
  \/ StartGateway
  \/ Abort
  \/ ConnTokenResume
  \/ \E k \in ConnIds : ConnUrlOk(k)
  \/ \E w \in SocketIds : SocketOpen(w)
  \/ \E w \in SocketIds, f \in HandleFrames : MessageEventArrives(w, f)
  \/ \E f \in FetchIds : FetchOk(f, 1, 0)
  \/ RefreshResume
  \/ PipelineDeliver
  \/ PipelineOnError
  \/ \E ok \in BOOLEAN : PipelineSettle(ok)
  \/ HandleSteps
SpecHandle == Init /\ [][NextHandle]_vars

\* The same with the steps of the gateway's own code taken whenever they
\* stay possible (timers fire, REST calls settle, continuations run); the
\* pipeline and the server are free to stay silent.
SpecHandleFair ==
  /\ SpecHandle
  /\ WF_vars(WorkerWake)
  /\ WF_vars(\E throws \in BOOLEAN : HandleMessageStart(throws))
  /\ WF_vars(WatchdogFire)
  /\ WF_vars(\E outcome \in SendOutcomes : ErrorSendSettle(outcome))
  /\ WF_vars(HandleMessageReturn)

\* One deliver callback after the other in plain-text mode.
InitDeliver ==
  /\ LoopInit /\ TokInit /\ ClientInit /\ SeqInit /\ LimInit /\ ChunkInit /\ GwIdle
  /\ seqBaseTime = 0
  /\ ExtIdle
NextDeliver ==
  \/ \E type \in EventTypes, caption \in Captions, path \in PathChars, exists \in BOOLEAN :
       Deliver_Plain(type, caption, path, exists)
  \/ \E outcome \in SendOutcomes : ImageUpload(outcome)
  \/ \E outcome \in SendOutcomes : MediaSend(outcome)
  \/ \E outcome \in SendOutcomes : TextSend(outcome)
  \/ DeliverReturn
SpecDeliver == InitDeliver /\ [][NextDeliver]_vars

\* ------------------------------------------------------------------------
\* Claims
\* ------------------------------------------------------------------------
\* C4: for every message id the msg_seq values returned by successive
\* getNextMsgSeq calls are strictly increasing, whatever calls for other
\* ids (more than the tracker keeps) come in between.
C4_SeqStrictlyIncreasing ==
  \A m \in MsgIds : \A i, j \in 1..Len(seqReturned[m]) :
    i < j => seqReturned[m][i] < seqReturned[m][j]

\* C3: for every message id, under any interleaving of concurrent sendText
\* calls, at most MESSAGE_REPLY_LIMIT passive REST sends succeed within one
\* window of MESSAGE_REPLY_TTL (the window opens with the first success).
C3_AtMostFourPassiveOk ==
  \A m \in MsgIds : passiveOk[m].n <= MESSAGE_REPLY_LIMIT

\* C5: at most one doFetchToken is in flight, and it is the one
\* tokenFetchPromise stands for; every caller suspended in getAccessToken
\* awaits that fetch or is about to resume with its result, and the results
\* handed out by one settlement are all the same.
C5_Waiting(c) ==
  \/ /\ tokenFetchPromise \in InFlight
     /\ \E i \in 1..Len(fetches[tokenFetchPromise].waiters) :
          fetches[tokenFetchPromise].waiters[i] = Client(c)
  \/ \E i \in 1..Len(microtasks) : microtasks[i].c = Client(c)

C5_Singleflight ==
  /\ Cardinality(InFlight) <= 1
  /\ InFlight = IF tokenFetchPromise = NoFetch THEN {} ELSE {tokenFetchPromise}
  /\ \A c \in ClientIds : clientPc[c] = "wait" => C5_Waiting(c)
  /\ \A i, j \in 1..Len(microtasks) : microtasks[i].res = microtasks[j].res

\* Two callers await the one fetch in flight.
C5_Witness ==
  /\ ~TokenFresh
  /\ \E f \in InFlight : Len(fetches[f].waiters) = 2

\* The first getAccessToken call after a clearTokenCache().
C6_FirstCallAfterClear ==
  clearPending \in {"idle", "busy"} /\ clearPending' \notin {"idle", "busy"}

\* C6 as claimed: the next getAccessToken call after a clearTokenCache()
\* starts a new fetch.
C6_NextCallStartsFetch ==
  [][C6_FirstCallAfterClear => InFlight' \ InFlight /= {}]_vars

\* C6: clearTokenCache() empties the cache and leaves a fetch in flight and
\* tokenFetchPromise alone; the next getAccessToken call starts a new fetch
\* exactly when no fetch is in flight and the cache is not fresh, which is the
\* case whenever no fetch was in flight at the clear.  Otherwise it joins the
\* fetch started before the clear, or returns the token that fetch cached.
C6_ClearThenJoinOrFetch ==
  /\ [](clearPending = "idle" => cachedToken = NullCached /\ InFlight = {})
  /\ [][/\ (cachedToken /= NullCached /\ cachedToken' = NullCached)
            => (fetches' = fetches /\ tokenFetchPromise' = tokenFetchPromise)
        /\ C6_FirstCallAfterClear
            => ((InFlight' \ InFlight /= {}) <=> (InFlight = {} /\ ~TokenFresh))
        /\ (C6_FirstCallAfterClear /\ InFlight /= {})
            => (InFlight' = InFlight /\ tokenFetchPromise' = tokenFetchPromise)]_vars

\* The call after a clear joined the fetch that was in flight at the clear.
C6_Witness == clearPending = "joined"

\* The frame a socket sends first goes out in this step.
C1_FirstSend(w) ==
  sockets[w].firstSent = NoFrame /\ sockets'[w].firstSent /= NoFrame

\* Hello is handled on the open socket w, which has sent nothing yet: the
\* handler arms the heartbeat ticker of w.
C1_Hello(w) ==
  /\ sockets[w].readyState = "OPEN"
  /\ sockets[w].firstSent = NoFrame
  /\ w \notin intervals
  /\ w \in intervals'

\* C1: the first frame a connection sends is its answer to Hello; it is an
\* op-6 Resume carrying sessionId and lastSeq when both are non-null at that
\* moment (learned in this process or restored at startup), and an op-2
\* Identify otherwise.
C1_ResumeOrIdentify ==
  [][\A w \in SocketIds :
       (C1_FirstSend(w) \/ C1_Hello(w)) =>
          IF sessionId /= Null /\ lastSeq /= Null
          THEN sockets'[w].firstSent =
                 [op |-> 6, session_id |-> sessionId, seq |-> lastSeq, intents |-> 0]
          ELSE sockets'[w].firstSent.op = 2]_vars

\* After the second connect() a socket answered Hello with a Resume of
\* session 2 at sequence number 2: a session learned from a READY of this
\* process (the store holds session 1 at most).
C1_Witness ==
  \E w \in SocketIds :
    /\ connectCalls = 2
    /\ sockets[w].firstSent.op = 6
    /\ sockets[w].firstSent.session_id = 2
    /\ sockets[w].firstSent.seq = 2

\* C2: once a close with code 4914 or 4915 has been handled, connect() is
\* not called again.
C2_NoConnectAfterFatalClose ==
  [][fatalClose => connectCalls' = connectCalls]_vars

C10_Pending == {t \in TimerIds : timers[t].pending}

\* C10: at most one reconnect timer is pending, the one reconnectTimer
\* holds; a timer that ends without being cancelled (by an abort, or by the
\* scheduleReconnect that arms its successor) makes exactly one connect() call.
C10_OneReconnectTimer ==
  /\ [](/\ Cardinality(C10_Pending) <= 1
        /\ C10_Pending = IF reconnectTimer = Null THEN {} ELSE {reconnectTimer})
  /\ [][\A t \in TimerIds :
          (timers[t].pending /\ C10_Pending' = {} /\ isAborted' = isAborted)
            => connectCalls' = connectCalls + 1]_vars

\* scheduleReconnect ran twice since the socket opened and no timer has
\* fired: the second call found the timer of the first pending.
C10_Witness ==
  /\ connectCalls = 1
  /\ reconnectAttempts = 2
  /\ reconnectTimer /= Null
  /\ timers[reconnectTimer].pending

\* C7: the queue never holds more than MESSAGE_QUEUE_SIZE entries, and
\* every enqueueMessage call completes within the step of the frame that
\* makes it, whatever the worker is doing: after the step the message is the
\* last entry of the queue and the worker is where it was.
C7_BoundedNeverWaits ==
  /\ [](Len(messageQueue) <= MESSAGE_QUEUE_SIZE)
  /\ [][enqueueLog'.calls = enqueueLog.calls + 1 =>
          /\ messageQueue' /= << >>
          /\ messageQueue'[Len(messageQueue')] = enqueueLog'.last
          /\ workerPc' = workerPc]_vars

\* A message was enqueued on a full queue while the worker was handling one.
C7_Witness ==
  /\ enqueueLog.full
  /\ workerPc = "handle"
  /\ Len(messageQueue) = MESSAGE_QUEUE_SIZE
  /\ messageQueue[Len(messageQueue)] = enqueueLog.last

\* C8: an enqueueMessage call on a full queue removes the head and nothing
\* else, and appends the new message at the tail: the other entries keep
\* their order.
C8_DropsOldest ==
  [][(enqueueLog'.calls = enqueueLog.calls + 1
        /\ Len(messageQueue) = MESSAGE_QUEUE_SIZE) =>
       messageQueue' = Append(Tail(messageQueue), enqueueLog'.last)]_vars

\* The last call found the queue full; the queue holds different
\* messages only, so a change of their order would show.
C8_Witness ==
  /\ enqueueLog.full
  /\ enqueueLog.calls > MESSAGE_QUEUE_SIZE
  /\ Len(messageQueue) = MESSAGE_QUEUE_SIZE
  /\ Cardinality({messageQueue[i] : i \in 1..Len(messageQueue)}) = MESSAGE_QUEUE_SIZE

\* C9: no invocation of the WebSocket frame handler is suspended on the
\* reply pipeline: a message-create event is enqueued and the handler
\* returns, in the gateway with the queue and in src/gateway.ts alike.
C9_HandlerNeverAwaitsPipeline ==
  \A h \in HandlerIds : streamHandlers[h] = NoMsg

C11_Attempts ==
  Cardinality({k \in ConnIds : connPc[k] /= "idle"})
    + Cardinality({w \in SocketIds : sockets[w].readyState = "CONNECTING"})

\* C11: at most one connection attempt is in progress at any time: while a
\* connect() invocation awaits the token or the gateway URL, or its socket
\* is still connecting, no other invocation gets past the isConnecting lock.
C11_OneAttemptInProgress == C11_Attempts <= 1

\* scheduleReconnect arms its timer in this step.
C12_Armed(t) ==
  /\ reconnectAttempts' = reconnectAttempts + 1
  /\ reconnectTimer' = t
  /\ timers'[t].pending

\* C12: a reconnect scheduled without a custom delay, when failedAttempts
\* connection attempts have failed since the last successful open, waits
\* RECONNECT_DELAYS[failedAttempts] (saturating at the last element): one
\* step of the schedule per failed attempt.
C12_DelayFollowsFailures ==
  [][\A t \in TimerIds :
       (C12_Armed(t) /\ ~timers'[t].custom) =>
          timers'[t].delay =
            RECONNECT_DELAYS[Min(failedAttempts, Len(RECONNECT_DELAYS) - 1) + 1]]_vars

\* C13: reconnectAttempts never exceeds MAX_RECONNECT_ATTEMPTS and every
\* open resets it to 0; while it stands at the cap no timer is armed, and
\* connect() is called only by a timer that was armed before.
C13_CapAndReset ==
  /\ [](reconnectAttempts <= MAX_RECONNECT_ATTEMPTS)
  /\ [][(\E w \in SocketIds : /\ sockets[w].readyState = "CONNECTING"
                               /\ sockets'[w].readyState = "OPEN")
          => reconnectAttempts' = 0]_vars
  /\ [][reconnectAttempts = MAX_RECONNECT_ATTEMPTS =>
          /\ C10_Pending' \subseteq C10_Pending
          /\ (connectCalls' /= connectCalls => C10_Pending' /= C10_Pending)]_vars

\* The cap was reached and the last timer has fired: nothing is pending.
C13_Witness ==
  /\ reconnectAttempts = MAX_RECONNECT_ATTEMPTS
  /\ C10_Pending = {}
  /\ connectCalls = 2
  /\ ~isAborted

\* C14: once the abort signal has fired, no WebSocket is open or connecting,
\* no heartbeat ticker is active, no reconnect timer is pending, and no
\* token refresh loop runs on (a loop that is left has its signal aborted
\* and ends at its next step, as the queue worker does when it next reads
\* isAborted).
C14_AbortedStaysDown ==
  isAborted =>
    /\ \A w \in SocketIds : sockets[w].readyState \notin {"OPEN", "CONNECTING"}
    /\ intervals = {}
    /\ C10_Pending = {}
    /\ \A r \in RefreshIds : refreshPc[r] /= "off" => refreshAborted[r]

\* C15: getAccessToken called with the credentials of one account never
\* returns a token that was fetched with the credentials of another.
C15_NoTokenCrossesAccounts ==
  \A c \in ClientIds : clientRes[c].ok => clientRes[c].token.app = AccountOf(c)

\* A sendText call is made in this step: an active send (no replyToId, or
\* replyToId cleared by the fallback of the limiter) with blank text.
C16_ActiveBlankCall ==
  /\ sendCalls' = sendCalls + 1
  /\ sendLast'.blank
  /\ sendLast'.reply = NoMsg \/ sendLast'.fallback

\* The call returns an error at once: no sender leaves "idle" for the
\* token or the REST call, the token store is not touched.
C16_FailsAtOnce ==
  /\ sendResult' = "error"
  /\ sendPc' = sendPc
  /\ UNCHANGED <<tokVars, passiveIssued, passiveOk>>

\* C16 as stated: such a call fails at once and leaves the quota records
\* unchanged.
C16_BlankActiveLeavesRecords ==
  [][C16_ActiveBlankCall =>
       C16_FailsAtOnce /\ messageReplyTracker' = messageReplyTracker]_vars

\* C16 amended: such a call fails at once and records no reply; the quota
\* records change at most by the pruning of expired records that the check
\* of the limiter performs when a replyToId was given.
C16_BlankActiveRecordsNothing ==
  [][C16_ActiveBlankCall =>
       /\ C16_FailsAtOnce
       /\ \A m \in MsgIds :
            \/ messageReplyTracker'[m] = messageReplyTracker[m]
            \/ /\ sendLast'.reply /= NoMsg
               /\ messageReplyTracker[m] /= NoRecord
               /\ Expired(messageReplyTracker[m])
               /\ messageReplyTracker'[m] = NoRecord]_vars

\* The last call had blank text and a replyToId for which the limiter
\* reported fallback; it returned an error.
C16_Witness ==
  /\ sendLast.blank
  /\ sendLast.fallback
  /\ sendResult = "error"
  /\ \A s \in SenderIds : sendPc[s] = "idle"

\* A sendText call is made in this step and the limiter reports fallback
\* for its replyToId.
C17_FallbackCall == sendCalls' = sendCalls + 1 /\ sendLast'.fallback

\* Sender s has left sendText's synchronous head for the token or the REST
\* call in this step.
C17_Proceeds(s) == sendPc[s] = "idle" /\ sendPc'[s] \in {"token", "rest"}

\* No REST call with a msg_id is issued and no msg_seq is taken in this step.
C17_NoPassiveIssue == UNCHANGED <<passiveIssued, seqVars>>

\* C17 as stated: on every fallback the call goes on to its REST call and
\* the quota record of m is not changed.
C17_FallbackAlwaysSends ==
  [][C17_FallbackCall =>
       /\ \E s \in SenderIds : C17_Proceeds(s)
       /\ messageReplyTracker'[sendLast'.reply] =
            messageReplyTracker[sendLast'.reply]]_vars

\* C17 amended: a fallback call with non-blank text for a configured account
\* clears replyToId and goes on; the REST call it issues carries no msg_id;
\* no reply is recorded when it settles; the quota records change at most by
\* the pruning of expired records at the call.
C17_FallbackSendsActive ==
  /\ [][(C17_FallbackCall /\ ~sendLast'.blank /\ sendLast'.configured) =>
          /\ \E s \in SenderIds :
               /\ C17_Proceeds(s)
               /\ sendCtx'[s].fallback
               /\ sendCtx'[s].replyToId = NoMsg
          /\ C17_NoPassiveIssue
          /\ messageReplyTracker' = PruneTracker(messageReplyTracker)]_vars
  /\ [][\A s \in SenderIds :
          (sendCtx[s].fallback /\ sendPc'[s] /= sendPc[s]) =>
             /\ C17_NoPassiveIssue
             /\ UNCHANGED <<messageReplyTracker, passiveOk>>
             /\ sendPc'[s] = "idle" => sendResult' \in {"sent", "error"}]_vars

\* Two calls were made: a passive reply to message 1 that succeeded, then a
\* call with non-blank text for which the limiter reported fallback and
\* whose active REST call succeeded.
C17_Witness ==
  /\ sendCalls = 2
  /\ passiveOk[1].n = 1
  /\ sendLast.fallback /\ ~sendLast.blank /\ sendLast.configured
  /\ sendResult = "sent"
  /\ \A s \in SenderIds : sendPc[s] = "idle"

\* C18: when an Identify with intent level L < 2 is answered by op 9 with
\* d=false, the next Identify the client sends uses level L + 1.
C18_IdentifySent == identifyLog'.flip /= identifyLog.flip

C18_NextIdentifyDowngrades ==
  [][(C18_IdentifySent /\ identifyLog.expect >= 0) =>
       identifyLog'.level = identifyLog.expect]_vars

\* The reply session is over: handleMessage and onError have returned, no
\* send is awaited and no keepalive is pending.
C19_SessionOver ==
  /\ handlePc = "done"
  /\ errorPc \in {"idle", "done"}
  /\ chunkSend.st = "idle" /\ keepaliveSend = "idle"
  /\ ~keepaliveTimer

C19_EndChunks == {i \in 1..Len(chunkLog) : chunkLog[i] = StreamState.END}

\* C19: of the chunks of a reply session at most one has the END state and
\* none follows it; when the session is over and a chunk was sent, the END
\* chunk was sent.
C19_ExactlyOneEnd ==
  /\ C19_EndChunks \subseteq {Len(chunkLog)}
  /\ (C19_SessionOver /\ chunkLog /= << >>) => C19_EndChunks /= {}

\* The chunk sends in flight: the REST calls of doStreamSend, of the
\* keepalive callback, of onError and of the end of handleMessage.
C20_InFlight ==
  (IF chunkSend.st = "rest" THEN 1 ELSE 0) + (IF keepaliveSend = "rest" THEN 1 ELSE 0)
    + (IF errorPc = "rest" THEN 1 ELSE 0) + (IF handlePc = "rest" THEN 1 ELSE 0)

\* C20: at most one stream chunk send is in flight at any time.
C20_OneChunkInFlight == C20_InFlight <= 1

\* C21: a text message of an account whose configuration does not set
\* markdownSupport is built as {content, msg_type: 0, msg_seq}, never as
\* {markdown, msg_type: 2}.
C21_UnsetMeansPlainText ==
  (lastBody /= NoBody /\ channelConfig[lastBody.account] = "unset") =>
    (lastBody.msg_type = 0 /\ lastBody.content /\ ~lastBody.markdown)

\* C22: in plain-text mode a C2C reply of a caption followed by one markdown
\* image literal with the path of an existing local file makes, when no call
\* fails, exactly one upload, then one msg_type 7 send, then one msg_type 0
\* send whose content is the caption.
C22_AllOk == \A i \in 1..Len(apiCalls) : apiCalls[i].ok
C22_ImageThenCaption ==
  (/\ deliverPc = "done" /\ dlvReply.type = "c2c" /\ dlvReply.exists
   /\ dlvReply.caption.words > 0 /\ C22_AllOk)
  => apiCalls = <<ApiCall("upload", 0, "file_data", "ok"),
                  ApiCall("media", 7, "file_info", "ok"),
                  ApiCall("text", 0, "caption", "ok")>>

\* C23: the handler of op 9 with d=false sets sessionId and lastSeq to null
\* and clears the persisted session; below the last intent level it raises
\* intentLevelIndex by exactly one, at the last level it leaves the index
\* and sets shouldRefreshToken, which only a connect() that clears the token
\* cache resets; intentLevelIndex is within 0..2 in every state.
C23_Handled ==
  /\ eventLog' /= eventLog
  /\ eventLog'.kind = "frame" /\ eventLog'.op = 9 /\ ~eventLog'.d
C23_Effect ==
  /\ sessionId' = Null /\ lastSeq' = Null /\ savedSession' = NoSession
  /\ IF intentLevelIndex < NumIntentLevels - 1
     THEN intentLevelIndex' = intentLevelIndex + 1
          /\ shouldRefreshToken' = shouldRefreshToken
     ELSE intentLevelIndex' = intentLevelIndex /\ shouldRefreshToken'
C23_RefreshConsumed ==
  (shouldRefreshToken /\ ~shouldRefreshToken')
    => (~isConnecting /\ isConnecting' /\ connectCalls' = connectCalls + 1
        /\ cachedToken' = NullCached)
C23_InvalidSessionDowngrades ==
  /\ [][(C23_Handled => C23_Effect) /\ C23_RefreshConsumed]_vars
  /\ [](intentLevelIndex \in 0..(NumIntentLevels - 1))
\* The token cache is cleared by the connect() after op 9 at the last level.
C23_Witness ==
  /\ intentLevelIndex = NumIntentLevels - 1
  /\ eventLog.kind = "frame" /\ eventLog.op = 9 /\ ~eventLog.d
  /\ ~shouldRefreshToken /\ cachedToken = NullCached /\ isConnecting
  /\ sessionId = Null /\ lastSeq = Null

\* C24: the handler of op 9 with d=true leaves sessionId, lastSeq,
\* intentLevelIndex and the persisted session as they are; a session held is
\* changed by nothing but the start, a dispatch or an op 9 with d=false, and
\* the handshake of a connection that holds a session is an op-6 Resume with
\* that session.
C24_Handled ==
  /\ eventLog' /= eventLog
  /\ eventLog'.kind = "frame" /\ eventLog'.op = 9 /\ eventLog'.d
C24_SessionTouched ==
  \/ mainPc = "start"
  \/ /\ eventLog' /= eventLog /\ eventLog'.kind = "frame"
     /\ eventLog'.op = 0 \/ (eventLog'.op = 9 /\ ~eventLog'.d)
C24_Handshake ==
  /\ eventLog' /= eventLog
  /\ eventLog'.kind = "frame" /\ eventLog'.op = 10
  /\ sockets[eventLog'.sock].readyState = "OPEN"
C24_ResumableKeepsSession ==
  [][/\ C24_Handled =>
          UNCHANGED <<sessionId, lastSeq, intentLevelIndex, savedSession>>
     /\ (sessionId' /= sessionId \/ lastSeq' /= lastSeq) => C24_SessionTouched
     /\ (C24_Handshake /\ sessionId /= Null /\ lastSeq /= Null) =>
          /\ sockets'[eventLog'.sock].lastSent = 6
          /\ sockets[eventLog'.sock].firstSent = NoFrame =>
               sockets'[eventLog'.sock].firstSent = Resume(sessionId, lastSeq)]_vars
\* The first handshake after an op 9 with d=true was a Resume of the session
\* held.
C24_Witness ==
  /\ eventLog.kind = "frame" /\ eventLog.op = 10
  /\ eventLog.shake.on /\ eventLog.shake.d
  /\ sockets[eventLog.sock].firstSent = Resume(sessionId, lastSeq)
  /\ sessionId /= Null /\ lastSeq /= Null

\* C25: the handler of op 9 (either d) arms the reconnect timer with the
\* delay of 3 s, and when the close event of the socket that handler closed
\* is processed while that timer is pending, the pending reconnect timer is
\* still one of 3 s.
C25_Armed3s(tm, t) ==
  /\ t /= Null
  /\ tm[t] = [pending |-> TRUE, delay |-> INVALID_SESSION_DELAY, custom |-> TRUE]
C25_Handled ==
  /\ eventLog' /= eventLog
  /\ eventLog'.kind = "frame" /\ eventLog'.op = 9
  /\ reconnectAttempts < MAX_RECONNECT_ATTEMPTS
C25_ClosedByHandler ==
  /\ eventLog' /= eventLog
  /\ eventLog'.kind = "close"
  /\ eventLog.inv.on /\ eventLog'.sock = eventLog.inv.sock
  /\ sockets[eventLog'.sock].readyState = "CLOSING"
  /\ C25_Armed3s(timers, reconnectTimer)
C25_ReconnectAfter3s ==
  [][/\ C25_Handled => C25_Armed3s(timers', reconnectTimer')
     /\ C25_ClosedByHandler => C25_Armed3s(timers', reconnectTimer')]_vars

\* C26: when READY is handled on the connection whose Identify awaits its
\* answer, lastSuccessfulIntentLevel and the intentLevelIndex written to the
\* persisted session are the level that Identify was sent with.
C26_ReadyHandled ==
  /\ eventLog' /= eventLog
  /\ eventLog'.kind = "frame" /\ eventLog'.op = 0 /\ eventLog'.t = "READY"
  /\ identifyLog.sock = eventLog'.sock
  /\ sockets[eventLog'.sock].readyState = "OPEN"
C26_RecordsIdentifiedLevel ==
  [][C26_ReadyHandled =>
       /\ lastSuccessfulIntentLevel' = identifyLog.level
       /\ savedSession'.intentLevelIndex = identifyLog.level]_vars

\* C27: the handler of a close with code 4009 leaves sessionId and lastSeq
\* as they are, marks the token for refresh and, unless the gateway is
\* aborted or out of attempts, arms a reconnect timer; the connect() that
\* passes its guard under the mark clears the token cache, drops the mark
\* and acquires a token; the handshake that follows the close while a
\* session is held is an op-6 Resume with that session.
C27_Handled ==
  /\ eventLog' /= eventLog
  /\ eventLog'.kind = "close" /\ eventLog'.code = 4009
C27_Scheduled ==
  (~isAborted /\ reconnectAttempts < MAX_RECONNECT_ATTEMPTS)
    => (reconnectTimer' /= Null /\ timers'[reconnectTimer'].pending)
C27_ConnectClears ==
  /\ (shouldRefreshToken /\ ~isConnecting /\ isConnecting')
       => /\ cachedToken' = NullCached /\ ~shouldRefreshToken'
          /\ \E k \in ConnIds : connPc'[k] = "token"
  /\ (shouldRefreshToken /\ ~shouldRefreshToken') => (~isConnecting /\ isConnecting')
C27_Handshake ==
  /\ eventLog' /= eventLog
  /\ eventLog'.kind = "frame" /\ eventLog'.op = 10
  /\ sockets[eventLog'.sock].readyState = "OPEN"
  /\ sockets[eventLog'.sock].firstSent = NoFrame
  /\ eventLog.inv.on /\ eventLog.inv.code = 4009
C27_ResumeAfter4009 ==
  [][/\ C27_Handled =>
          /\ UNCHANGED <<sessionId, lastSeq>>
          /\ shouldRefreshToken'
          /\ C27_Scheduled
     /\ C27_ConnectClears
     /\ (C27_Handshake /\ sessionId /= Null /\ lastSeq /= Null) =>
          sockets'[eventLog'.sock].firstSent = Resume(sessionId, lastSeq)]_vars
\* The handshake after a close with code 4009 was the Resume of the session
\* held, made with a token acquired after the cache was cleared.
C27_Witness ==
  /\ eventLog.kind = "frame" /\ eventLog.op = 10
  /\ eventLog.shake.on /\ eventLog.shake.code = 4009
  /\ sessionId /= Null /\ lastSeq /= Null
  /\ sockets[eventLog.sock].firstSent = Resume(sessionId, lastSeq)
  /\ ~shouldRefreshToken

\* C28: the handler of a close with a code in 4900..4913 sets sessionId and
\* lastSeq to null, marks the token for refresh and, unless the gateway is
\* aborted or out of attempts, arms a reconnect timer; the connect() that
\* passes its guard under the mark clears the token cache; the handshake
\* that follows the close is an op-2 Identify.
C28_Handled ==
  /\ eventLog' /= eventLog
  /\ eventLog'.kind = "close" /\ InternalError(eventLog'.code)
C28_Scheduled ==
  (~isAborted /\ reconnectAttempts < MAX_RECONNECT_ATTEMPTS)
    => (reconnectTimer' /= Null /\ timers'[reconnectTimer'].pending)
C28_ConnectClears ==
  (shouldRefreshToken /\ ~isConnecting /\ isConnecting')
    => (cachedToken' = NullCached /\ ~shouldRefreshToken')
C28_Handshake ==
  /\ eventLog' /= eventLog
  /\ eventLog'.kind = "frame" /\ eventLog'.op = 10
  /\ sockets[eventLog'.sock].readyState = "OPEN"
  /\ eventLog.inv.on /\ InternalError(eventLog.inv.code)
C28_IdentifyAfterInternalError ==
  [][/\ C28_Handled =>
          /\ sessionId' = Null /\ lastSeq' = Null
          /\ shouldRefreshToken'
          /\ C28_Scheduled
     /\ C28_ConnectClears
     /\ C28_Handshake =>
          /\ sockets'[eventLog'.sock].lastSent = 2
          /\ sockets'[eventLog'.sock].firstSent.op = 2]_vars
\* A process that restored a session made, after a close with an internal
\* error, its next handshake with an Identify.
C28_Witness ==
  /\ eventLog.kind = "frame" /\ eventLog.op = 10
  /\ eventLog.shake.on /\ InternalError(eventLog.shake.code)
  /\ savedSession /= NoSession
  /\ sockets[eventLog.sock].firstSent.op = 2
  /\ ~shouldRefreshToken

\* C29: at every close event other than a terminal one, a close within the
\* threshold of the open of its own connection raises quickDisconnectCount
\* by one, the third in a row setting it to 0 and arming the reconnect timer
\* with the 60 s delay; any other close sets the counter to 0; the counter
\* is within 0..2 in every state.
C29_Handled ==
  /\ eventLog' /= eventLog
  /\ eventLog'.kind = "close" /\ eventLog'.code \notin {4914, 4915}
C29_QuickOfOwnOpen == eventLog'.quick /\ sockets[eventLog'.sock].opened
C29_Armed60s ==
  (~isAborted /\ reconnectAttempts < MAX_RECONNECT_ATTEMPTS /\ eventLog'.code /= 1000)
    => /\ reconnectTimer' /= Null
       /\ timers'[reconnectTimer'] =
            [pending |-> TRUE, delay |-> RATE_LIMIT_DELAY, custom |-> TRUE]
C29_CountsQuickCloses ==
  /\ [][C29_Handled =>
          IF C29_QuickOfOwnOpen
          THEN IF quickDisconnectCount + 1 >= MAX_QUICK_DISCONNECT_COUNT
               THEN quickDisconnectCount' = 0 /\ C29_Armed60s
               ELSE quickDisconnectCount' = quickDisconnectCount + 1
          ELSE quickDisconnectCount' = 0]_vars
  /\ [](quickDisconnectCount \in 0..(MAX_QUICK_DISCONNECT_COUNT - 1))

\* C30: per gateway instance at most one handleMessage invocation is in
\* progress at any time, also after a reconnect has opened another socket and
\* called startMessageProcessor again; the worker hands over the head of the
\* queue, so entries leave in enqueue order; and when handleMessage throws
\* the worker goes on with its loop (it stops only once the gateway is
\* aborted).
C30_HandOver == handleLog'.inProgress = handleLog.inProgress + 1
C30_Threw == workerPc = "handle" /\ handleLog'.failed /\ handleLog' /= handleLog
C30_OneAtATime == handleLog.inProgress <= 1
C30_HeadFirst ==
  C30_HandOver =>
    /\ messageQueue /= << >>
    /\ handleLog'.last = Head(messageQueue)
    /\ messageQueue' = Tail(messageQueue)
C30_GoesOn ==
  C30_Threw /\ ~isAborted =>
    /\ messageProcessorRunning'
    /\ workerPc' \in {"sleep", "handle"}
    /\ (messageQueue /= << >> => workerPc' = "handle")
C30_SerialWorker ==
  /\ []C30_OneAtATime
  /\ [][C30_HeadFirst]_vars
  /\ [][C30_GoesOn]_vars
C30_Witness ==
  /\ connectCalls = 2
  /\ \E w \in SocketIds : sockets[w].readyState = "OPEN"
  /\ handleLog.failed
  /\ handleLog.inProgress = 1
  /\ workerPc = "handle"
  /\ messageQueue /= << >>

\* C31: when the watchdog window ends and the pipeline has invoked neither
\* deliver nor onError, handleMessage has, by the time it returns, sent
\* exactly one timeout error message, and sent it to the target the event
\* came from.
C31_TimedOut == handleState.pc = "returned" /\ handleState.outcome = "timeout"
C31_TimeoutMessageSent ==
  C31_TimedOut =>
    /\ handleState.calls.timeout = 1
    /\ handleState.calls.to = OriginOf(handleState.event)

\* C32: for every kind of inbound event (c2c, group, guild, dm), when the
\* reply pipeline has errored or timed out, handleMessage has issued an error
\* message REST call by the time it returns, and issued it to the target the
\* event came from.
C32_Failed ==
  handleState.pc = "returned" /\ handleState.outcome \in {"error", "timeout"}
C32_ErrorReachesOrigin ==
  C32_Failed =>
    /\ handleState.calls.error + handleState.calls.timeout >= 1
    /\ handleState.calls.to = OriginOf(handleState.event)

\* C40: while the gateway is not aborted, a message waiting in the queue is
\* eventually handed to the reply pipeline (the queue drains), whatever the
\* pipeline does with the messages before it.
C40_Waiting == messageQueue /= << >>
C40_EveryMessageHanded == C40_Waiting ~> (messageQueue = << >> \/ isAborted)

\* C33: while the pipeline of a C2C reply is running, the stream has started
\* and has not ended, and no chunk send is in flight, a keepalive timer is
\* pending.
C33_Quiet ==
  /\ handlePc = "dispatch"
  /\ errorPc = "idle"
  /\ streamStarted
  /\ ~streamEnded
  /\ chunkSend.st = "idle"
  /\ keepaliveSend = "idle"
C33_KeepalivePending == C33_Quiet => keepaliveTimer

\* C34: when the pipeline of a C2C reply has completed normally and the END
\* chunk of the stream has been acknowledged, the acknowledged increments,
\* put one after the other, are the final accumulated text: every increment
\* began where the one before ended (nothing sent twice, nothing left out)
\* and their total length is the length of the final text. This covers text
\* that arrived while a chunk was in flight or inside the chunk interval.
C34_Ended == handlePc = "done" /\ streamEnded /\ streamCtx.ended
C34_NoTextLost ==
  C34_Ended => (~received.broken /\ received.len = streamBuffer)
C34_Witness ==
  /\ C34_Ended
  /\ received.len = MaxGrow
  /\ streamCtx.index >= 3
  /\ pendingFullText = MaxGrow
  /\ lastSentLength < MaxGrow

\* C35: after every getNextMsgSeq call the tracker holds at most the bound
\* of entries, and the entries a call evicts are the least recently used:
\* every evicted id was last served before every id that is retained.
C35_LastServed(k) ==
  CHOOSE i \in 1..Len(seqServed') :
    seqServed'[i] = k /\ \A j \in (i + 1)..Len(seqServed') : seqServed'[j] /= k
C35_Evicted == SeqKeys(msgSeqTracker) \ SeqKeys(msgSeqTracker')
C35_EvictsLeastRecent ==
  seqServed' /= seqServed =>
    \A k \in C35_Evicted, r \in SeqKeys(msgSeqTracker') :
      C35_LastServed(k) < C35_LastServed(r)
C35_LruBounded ==
  /\ [](Len(msgSeqTracker) <= MaxTracked)
  /\ [][C35_EvictsLeastRecent]_vars

\* C36: a sendMedia call with a replyToId whose quota is used up or whose
\* window has expired issues no REST call carrying that msg_id, and every
\* successful passive REST call of sendMedia is recorded in the quota record
\* of the message, as a successful text reply is.
C36_MediaStarts(s) == sendPc[s] = "idle" /\ sendPc'[s] = "media"
C36_Refused(m) ==
  m /= NoMsg /\ ~CheckMessageReplyLimit(messageReplyTracker, m).allowed
C36_MediaSucceeds(s) ==
  /\ sendPc[s] \in {"media", "caption"}
  /\ sendPc'[s] /= sendPc[s]
  /\ sendCtx[s].replyToId /= NoMsg
  /\ passiveOk' /= passiveOk
C36_MediaThroughLimiter ==
  /\ [][\A s \in SenderIds :
          (C36_MediaStarts(s) /\ C36_Refused(sendCtx'[s].replyToId))
            => passiveIssued' = passiveIssued]_vars
  /\ [][\A s \in SenderIds :
          C36_MediaSucceeds(s) =>
            messageReplyTracker' =
              RecordMessageReply(messageReplyTracker, sendCtx[s].replyToId)]_vars

\* C37: whenever the running gateway drops its in-memory session (sessionId
\* and lastSeq become null, by op 9 with d = false or by a close code in
\* 4900..4913), the persisted session of the account is cleared in the same
\* step, so a later start finds nothing to Resume.
C37_SessionDropped ==
  /\ sessionId /= Null
  /\ sessionId' = Null /\ lastSeq' = Null
C37_DropClearsPersisted ==
  [][C37_SessionDropped => savedSession' = NoSession]_vars

\* The sockets of the gateway that are connecting or open.
C38_Live == {w \in SocketIds : sockets[w].readyState \in {"CONNECTING", "OPEN"}}
C38_OneLive ==
  /\ Cardinality(C38_Live) <= 1
  /\ \A w \in C38_Live : w = currentWs
\* A handler runs in this step for a socket that is not currentWs.
C38_StaleEvent ==
  /\ eventLog' /= eventLog
  /\ eventLog'.sock /= currentWs
C38_Inert ==
  /\ heartbeatInterval' \in {heartbeatInterval, Null}
  /\ isConnecting => isConnecting'
  /\ reconnectTimer' = reconnectTimer /\ timers' = timers
\* C38: at most one WebSocket of the gateway is open or connecting at any
\* time and it is currentWs; an event (Hello, dispatch, close) of a socket
\* that is not currentWs starts no heartbeat, does not release the connect
\* lock and schedules no reconnect.
C38_OneLiveSocket ==
  []C38_OneLive /\ [][C38_StaleEvent => C38_Inert]_vars

\* The background token refresh of api.ts under any order of start, stop,
\* the end of a token fetch and the end of a sleep.
NextRefresh ==
  \/ StartRefreshCall
  \/ StopRefreshCall
  \/ RefreshResume
  \/ \E r \in RefreshIds : RefreshWake(r)
  \/ \E f \in FetchIds : FetchOk(f, 1, 0)
  \/ \E f \in FetchIds, rate \in BOOLEAN : FetchFail(f, rate)
  \/ \E d \in {1, 7} : Tick(d)
SpecRefresh == Init /\ [][NextRefresh]_vars

\* The refresh loops that have not been stopped.
C39_Alive == {r \in RefreshIds : refreshPc[r] /= "off" /\ ~refreshAborted[r]}
C39_OneLoop ==
  /\ Cardinality(C39_Alive) <= 1
  /\ backgroundRefreshRunning <=> C39_Alive /= {}
\* The calls of getAccessToken by loop r that await a fetch.
C39_Waits(fs, r) ==
  Cardinality({<<f, i>> \in FetchIds \X (1..(MaxRefresh + 1)) :
                 i <= Len(fs[f].waiters) /\ fs[f].waiters[i] = Refresh(r)})
C39_StoppedQuiet ==
  \A r \in RefreshIds :
    (refreshPc[r] /= "off" /\ refreshAborted[r])
      => (C39_Waits(fetches', r) <= C39_Waits(fetches, r)
          /\ refreshAborted'[r])
\* C39: at most one background token refresh loop is alive at any time and
\* backgroundRefreshRunning is true exactly when one is, under every order
\* of start, stop and the end of the token fetch of a loop that is being
\* stopped; a stopped loop starts no further fetch.
C39_SingleRefreshLoop ==
  []C39_OneLoop /\ [][C39_StoppedQuiet]_vars

=============================================================================
